---------------------------- MODULE Spec2Model ----------------------------
(***************************************************************************)
(* A model of simple-folder-backup: the hash store (deduplication.go), the *)
(* backup tick and the rotation of old backups (utils.go), and the status  *)
(* table (status.go).                                                      *)
(*                                                                         *)
(* Five specifications share the definitions below:                        *)
(*   Spec          the scheduler of the enabled job: initializeSchedule,   *)
(*                 the first timer and the ticker, and each tick through   *)
(*                 executeBackup / performBackup, one step per call        *)
(*   SpecStart     the start of the scheduler up to its first timer, at    *)
(*                 any time, after any record and any backup directories   *)
(*   SpecCancel    the scheduler with cancel() called at any moment        *)
(*   SpecCleanup   cleanupOldBackups, one deletion per step                *)
(*   SpecStore     recordAction / saveToFile of concurrent jobs, one lock  *)
(*                 operation or file operation per step, with crashes      *)
(***************************************************************************)
EXTENDS Integers, Sequences, FiniteSets, TLC

\* ------------------------------------------------------------------ bounds

MaxClock == 4
MaxContent == 1
MaxRotation == 1
MaxSnapshots == 3
MaxModTime == 2
MaxCalls == 2
MaxLate == 8

\* ------------------------------------------------------------ basic values

Jobs == {"a", "b"}
\* the goroutines that take locks: the scheduler of each job, and the one
\* that refreshes the two menu titles
Goroutines == Jobs \cup {"ui"}
\* the configuration names in the order encoding/json writes map keys
JobOrder == <<"a", "b">>
Contents == 0 .. MaxContent
Kinds == {"backup", "skipped"}
\* time.Time{} : the zero time, for which IsZero() holds
ZeroTime == 0

VARIABLES
    clock,            \* time.Now()
    content,          \* content[j]: what the source folder of j holds
    cfg,              \* cfg[j]: the BackupConfig of job j
    hashes,           \* HashManager.hashes: a map, DOMAIN hashes \subseteq Jobs
    file,             \* hashes.json: whether it exists and its content
    crashed,          \* the process died (a crash, or a panic of a goroutine)
    disk,             \* disk[j]: the backup directories in the destination of j
    lastBackupTimes,  \* BackupStatus.lastBackupTimes: a map
    nextBackupTimes,  \* BackupStatus.nextBackupTimes: a map
    pc,               \* pc[j]: where the scheduler goroutine of j is
    err,              \* err[j]: what the last executeBackup of j returned
    act,              \* act[j]: "skip" or "copy", what this tick of j decided
    cur,              \* cur[j]: currentHash of shouldSkipBackup in this tick
    rec,              \* rec[j]: what recordAction returned in this tick
    dir,              \* dir[j]: timestamp of performBackup, naming backupDir
    dirInfos,         \* dirInfos[j] of cleanupOldBackups, sorted
    idx,              \* idx[j]: the loop index i of cleanupOldBackups
    listed,           \* history: backupDirs[j] of this run of cleanupOldBackups
    deleted,          \* history: the directories this run has removed
    pre,              \* history: status and record of j when this tick began
    wrote,            \* history: this tick of j wrote hashes.json
    prev,             \* history: how the tick before this one ended
    unchangedSince,   \* history: ticks begun since content[j] last changed
    captured,         \* history: the contents the successful copies of j copied
    sched,            \* sched[j]: effectiveLastTime and firstBackupDelay of j
    cancelled,        \* ctx.Done() is closed: cancel() has been called
    timer,            \* timer[j]: the first timer, then the ticker, of j
    mu,               \* HashManager.mu: the writer and the readers holding it
    spc,              \* spc[j]: where job j is in recordAction / saveToFile
    ent,              \* ent[j]: the HashStatus the current call of j writes
    data,             \* data[j]: the bytes j's saveToFile marshalled
    off,              \* off[j]: how many chunks j's WriteFile has written
    ret,              \* ret[j]: what the last recordAction of j returned
    calls,            \* history: the calls of recordAction begun so far
    persisted,        \* history: the store the last successful save wrote
    load,             \* history: the last load of hashes.json at a start
    overlap,          \* history: two saves had the file open at once
    bsmu,             \* BackupStatus.mu: the writer and the readers holding it
    lpc,              \* lpc[g]: the lock operation goroutine g is at, in SpecLocks
    path              \* path[g]: the lock operations and I/O of the run of g

\* the variables of one call of recordAction, stepped in SpecStore
\* the lock operations of the goroutines, stepped in SpecLocks
lockVars == <<bsmu, lpc, path>>
callVars == <<mu, spc, ent, data, off, ret, calls, persisted, load, overlap, lockVars>>
\* the variables of cleanupOldBackups
cleanupVars == <<dirInfos, idx, listed, deleted>>
\* the status table
statusVars == <<lastBackupTimes, nextBackupTimes>>
\* the variables of one tick of a scheduler
tickVars == <<pc, err, act, cur, rec, dir, pre, wrote, prev, unchangedSince, captured>>
\* the start of the scheduler, its timers and its cancellation
schedVars == <<sched, cancelled, timer>>

vars == <<clock, content, cfg, hashes, file, crashed, disk, statusVars, tickVars,
          schedVars, cleanupVars, callVars>>

\* ------------------------------------------------------- the hash store

\* dirhash.HashDir(dir, "", dirhash.Hash1): a digest of the content, taken
\* to be free of collisions
calculateDirectoryHash(c) == <<"h1:", c>>

\* the content a digest was taken of
ContentOf(h) == h[2]

HashStatus(h, k, t) == [LastHash |-> h, LastActionType |-> k, LastActionTime |-> t]

EmptyMap == [k \in {} |-> 0]

\* m[j] = e on a Go map
PutEntry(m, j, e) == [k \in (DOMAIN m) \cup {j} |-> IF k = j THEN e ELSE m[k]]

\* The file is a sequence of chunks: the opening brace, one chunk for each
\* key with its value, the closing brace. A chunk of zero bytes ("hole") is
\* what a write past the end of the file leaves before it.
OpenBrace == [t |-> "{"]
CloseBrace == [t |-> "}"]
Hole == [t |-> "hole"]
EntryChunk(j, e) == [t |-> "entry", k |-> j, v |-> e]

RECURSIVE MarshalFrom(_, _)
MarshalFrom(m, i) ==
    IF i > Len(JobOrder) THEN <<CloseBrace>>
    ELSE IF JobOrder[i] \in DOMAIN m
         THEN <<EntryChunk(JobOrder[i], m[JobOrder[i]])>> \o MarshalFrom(m, i + 1)
         ELSE MarshalFrom(m, i + 1)

\* json.MarshalIndent(hm.hashes, "", "  "): the keys in sorted order
MarshalIndent(m) == <<OpenBrace>> \o MarshalFrom(m, 1)

\* json.Unmarshal checks the whole text before it stores anything
ValidJSON(bytes) ==
    /\ Len(bytes) >= 2
    /\ bytes[1] = OpenBrace
    /\ bytes[Len(bytes)] = CloseBrace
    /\ \A i \in 2 .. Len(bytes) - 1 : bytes[i].t = "entry"

RECURSIVE UnmarshalInto(_, _, _)
UnmarshalInto(m, bytes, i) ==
    IF i >= Len(bytes) THEN m
    ELSE UnmarshalInto(PutEntry(m, bytes[i].k, bytes[i].v), bytes, i + 1)

UnmarshalKeepsWhatItRead(m, bytes) ==
    LET read == {n \in 1 .. Len(bytes) : bytes[n].t = "entry"}
    IN  IF ValidJSON(bytes) THEN [err |-> FALSE, hashes |-> UnmarshalInto(m, bytes, 2)]
        ELSE [err |-> TRUE,
              hashes |-> [k \in DOMAIN m \cup {bytes[n].k : n \in read} |->
                             IF \E n \in read : bytes[n].k = k
                             THEN bytes[CHOOSE n \in read : bytes[n].k = k].v
                             ELSE m[k]]]
\* json.Unmarshal(data, &hm.hashes): entries are stored into the map given
Unmarshal(m, bytes) ==
    IF ValidJSON(bytes) THEN [err |-> FALSE, hashes |-> UnmarshalInto(m, bytes, 2)]
    ELSE [err |-> TRUE, hashes |-> m]

NoFile == [exists |-> FALSE, bytes |-> <<>>]
FileOf(bytes) == [exists |-> TRUE, bytes |-> bytes]

\* loadFromFile on a fresh HashManager: a missing file is no error
loadFromFile(f) ==
    IF ~f.exists THEN [err |-> FALSE, hashes |-> EmptyMap]
    ELSE Unmarshal(EmptyMap, f.bytes)

\* a write of one chunk at a position of the file (1-based)
WriteAt(bytes, p, chunk) ==
    [i \in 1 .. (IF p > Len(bytes) THEN p ELSE Len(bytes)) |->
        IF i = p THEN chunk
        ELSE IF i <= Len(bytes) THEN bytes[i]
        ELSE Hole]


\* --------------------------------------------- recordAction and saveToFile

NoLock == [w |-> {}, r |-> {}]
NoEntry == HashStatus(<<"h1:", 0>>, "", ZeroTime)

\* recordAction, up to hm.mu.Lock(): the hash of the source is computed
\* before the lock is asked for
RecordActionBegin(j) ==
    /\ ~crashed
    /\ spc[j] = "idle"
    /\ calls < MaxCalls
    /\ calls' = calls + 1
    /\ \E k \in Kinds :
          ent' = [ent EXCEPT ![j] = HashStatus(calculateDirectoryHash(content[j]), k, ZeroTime)]
    /\ spc' = [spc EXCEPT ![j] = "lock"]
    /\ ret' = [ret EXCEPT ![j] = "running"]
    /\ UNCHANGED <<lockVars, hashes, file, mu, data, off, crashed, persisted, load, overlap>>
    /\ UNCHANGED <<clock, content, cfg, schedVars, disk, statusVars, tickVars, cleanupVars>>

\* recordAction when calculateDirectoryHash fails: nothing is written
RecordActionHashError(j) ==
    /\ ~crashed
    /\ spc[j] = "idle"
    /\ ret' = [ret EXCEPT ![j] = "hash error"]
    /\ UNCHANGED <<lockVars, calls, load, hashes, file, mu, spc, ent, data, off, crashed, persisted, overlap>>
    /\ UNCHANGED <<clock, content, cfg, schedVars, disk, statusVars, tickVars, cleanupVars>>

CanLockIgnoringReaders(m) == m.w = {}
\* sync.RWMutex: Lock waits until nobody holds the lock
CanLock(m) == m.w = {} /\ m.r = {}
\* sync.RWMutex: RLock waits only for a writer
CanRLock(m) == m.w = {}

\* hm.mu.Lock()
Lock(j) ==
    /\ ~crashed
    /\ spc[j] = "lock"
    /\ CanLock(mu)
    /\ mu' = [mu EXCEPT !.w = {j}]
    /\ spc' = [spc EXCEPT ![j] = "locked"]
    /\ UNCHANGED <<lockVars, calls, load, hashes, file, ent, data, off, ret, crashed, persisted, overlap>>
    /\ UNCHANGED <<clock, content, cfg, schedVars, disk, statusVars, tickVars, cleanupVars>>

\* hm.hashes[configName] = HashStatus{..., time.Now()}; hm.mu.Unlock()
\* Every store reads a later time than the one before it.
StoreAndUnlock(j) ==
    /\ ~crashed
    /\ spc[j] = "locked"
    /\ LET e == [ent[j] EXCEPT !.LastActionTime = clock]
       IN /\ hashes' = PutEntry(hashes, j, e)
          /\ ent' = [ent EXCEPT ![j] = e]
    /\ mu' = [mu EXCEPT !.w = {}]
    /\ spc' = [spc EXCEPT ![j] = "rlock"]
    /\ clock' = clock + 1
    /\ UNCHANGED <<content, cfg, schedVars, disk, statusVars, tickVars, cleanupVars>>
    /\ UNCHANGED <<lockVars, calls, load, file, data, off, ret, crashed, persisted, overlap>>

\* saveToFile: hm.mu.RLock()
RLock(j) ==
    /\ ~crashed
    /\ spc[j] = "rlock"
    /\ CanRLock(mu)
    /\ mu' = [mu EXCEPT !.r = @ \cup {j}]
    /\ spc' = [spc EXCEPT ![j] = "marshal"]
    /\ UNCHANGED <<lockVars, calls, load, hashes, file, ent, data, off, ret, crashed, persisted, overlap>>
    /\ UNCHANGED <<clock, content, cfg, schedVars, disk, statusVars, tickVars, cleanupVars>>

\* saveToFile: data, err := json.MarshalIndent(hm.hashes, "", "  ")
Marshal(j) ==
    /\ ~crashed
    /\ spc[j] = "marshal"
    /\ data' = [data EXCEPT ![j] = MarshalIndent(hashes)]
    /\ spc' = [spc EXCEPT ![j] = "open"]
    /\ UNCHANGED <<lockVars, calls, load, hashes, file, mu, ent, off, ret, crashed, persisted, overlap>>
    /\ UNCHANGED <<clock, content, cfg, schedVars, disk, statusVars, tickVars, cleanupVars>>

Writing == {k \in Jobs : spc[k] \in {"write", "close"}}

\* os.WriteFile: OpenFile(name, O_WRONLY|O_CREATE|O_TRUNC, perm)
OpenTruncate(j) ==
    /\ ~crashed
    /\ spc[j] = "open"
    /\ file' = FileOf(<<>>)
    /\ off' = [off EXCEPT ![j] = 0]
    /\ spc' = [spc EXCEPT ![j] = "write"]
    /\ overlap' = (overlap \/ Writing # {})
    /\ UNCHANGED <<lockVars, calls, load, hashes, mu, ent, data, ret, crashed, persisted>>
    /\ UNCHANGED <<clock, content, cfg, schedVars, disk, statusVars, tickVars, cleanupVars>>

\* os.WriteFile: f.Write(data), one chunk at the offset of this descriptor
WriteChunk(j) ==
    /\ ~crashed
    /\ spc[j] = "write"
    /\ off[j] < Len(data[j])
    /\ file' = FileOf(WriteAt(file.bytes, off[j] + 1, data[j][off[j] + 1]))
    /\ off' = [off EXCEPT ![j] = @ + 1]
    /\ spc' = [spc EXCEPT ![j] = IF off[j] + 1 = Len(data[j]) THEN "close" ELSE "write"]
    /\ UNCHANGED <<lockVars, calls, load, hashes, mu, ent, data, ret, crashed, persisted, overlap>>
    /\ UNCHANGED <<clock, content, cfg, schedVars, disk, statusVars, tickVars, cleanupVars>>

\* saveToFile returns nil: f.Close(), the deferred hm.mu.RUnlock(), and
\* recordAction returns what saveToFile returned
SaveReturn(j) ==
    /\ ~crashed
    /\ spc[j] = "close"
    /\ mu' = [mu EXCEPT !.r = @ \ {j}]
    /\ spc' = [spc EXCEPT ![j] = "idle"]
    /\ ret' = [ret EXCEPT ![j] = "nil"]
    /\ persisted' = Unmarshal(EmptyMap, data[j]).hashes
    /\ data' = [data EXCEPT ![j] = <<>>]
    /\ off' = [off EXCEPT ![j] = 0]
    /\ UNCHANGED <<lockVars, calls, load, hashes, file, ent, crashed, overlap>>
    /\ UNCHANGED <<clock, content, cfg, schedVars, disk, statusVars, tickVars, cleanupVars>>

\* os.WriteFile fails: the open fails and the file is as it was, or a write
\* fails after the truncation; saveToFile returns the error
SaveError(j) ==
    /\ ~crashed
    /\ spc[j] \in {"open", "write"}
    /\ mu' = [mu EXCEPT !.r = @ \ {j}]
    /\ spc' = [spc EXCEPT ![j] = "idle"]
    /\ ret' = [ret EXCEPT ![j] = "save error"]
    /\ data' = [data EXCEPT ![j] = <<>>]
    /\ off' = [off EXCEPT ![j] = 0]
    /\ UNCHANGED <<lockVars, calls, load, hashes, file, ent, crashed, persisted, overlap>>
    /\ UNCHANGED <<clock, content, cfg, schedVars, disk, statusVars, tickVars, cleanupVars>>

\* the process dies: what is in memory is lost, the file is as it is
Crash ==
    /\ ~crashed
    /\ crashed' = TRUE
    /\ UNCHANGED <<lockVars, calls, load, hashes, file, mu, spc, ent, data, off, ret, persisted, overlap>>
    /\ UNCHANGED <<clock, content, cfg, schedVars, disk, statusVars, tickVars, cleanupVars>>

\* the next start: initHashManager logs a load error and goes on
initHashManager(f) == loadFromFile(f).hashes

\* no load has failed, and no call came before the load
NoLoad == [err |-> FALSE, calls |-> 0]

Restart ==
    /\ crashed
    /\ crashed' = FALSE
    /\ hashes' = initHashManager(file)
    /\ mu' = NoLock
    /\ spc' = [j \in Jobs |-> "idle"]
    /\ ent' = [j \in Jobs |-> NoEntry]
    /\ data' = [j \in Jobs |-> <<>>]
    /\ off' = [j \in Jobs |-> 0]
    /\ ret' = [j \in Jobs |-> "none"]
    /\ overlap' = FALSE
    /\ persisted' = hashes'
    /\ load' = [err |-> loadFromFile(file).err, calls |-> calls]
    /\ UNCHANGED <<lockVars, file, calls>>
    /\ UNCHANGED <<clock, content, cfg, schedVars, disk, statusVars, tickVars, cleanupVars>>

\* ------------------------------------------------------- configuration

\* RotationCount is any integer of config.json: loadConfig checks nothing
Rotations == -1 .. MaxRotation
Configs == [Enabled : BOOLEAN, HashCheck : BOOLEAN, RotationCount : Rotations,
            ScheduleMinutes : {2}]

IsEnabled(c) == c.Enabled
HashCheckAlwaysEnabled(c) == TRUE
IsHashCheckEnabled(c) == c.HashCheck

\* ---------------------------------------------------- backup directories

\* An entry of the destination. A backup directory of the source: name is
\* the timestamp its name holds, mtime its modification time, complete
\* whether copyDir finished in it. Any other entry: a file, or a directory
\* whose name isBackupDirectory rejects for this source. A lookalike: a
\* directory whose name ends with the source folder name and is long enough
\* for isBackupDirectory, with a prefix that is not a timestamp.
Snapshot(n, m, c) == [name |-> n, mtime |-> m, complete |-> c, qualifies |-> TRUE]
OtherEntry(n, m) == [name |-> n, mtime |-> m, complete |-> TRUE, qualifies |-> FALSE]
NotATimestamp == -1
Lookalike(m) == [name |-> NotATimestamp, mtime |-> m, complete |-> TRUE, qualifies |-> TRUE]

Max(S) == CHOOSE x \in S : \A y \in S : y <= x

\* the entries of the destination that pass entry.IsDir() && isBackupDirectory
BackupDirs(d) == {x \in d : x.qualifies}

\* parseBackupTimestamp: the zero time and no error for a name that
\* isBackupDirectory rejects, else what time.ParseInLocation makes of the prefix
parseBackupTimestamp(x) ==
    IF ~x.qualifies THEN [t |-> ZeroTime, err |-> FALSE]
    ELSE IF x.name = NotATimestamp THEN [t |-> ZeroTime, err |-> TRUE]
    ELSE [t |-> x.name, err |-> FALSE]

\* the directories findLastBackupTime takes a time from
Timestamped(d) ==
    {x \in BackupDirs(d) :
        ~parseBackupTimestamp(x).err /\ parseBackupTimestamp(x).t # ZeroTime}

findLastBackupTime(d) ==
    IF Timestamped(d) = {} THEN ZeroTime
    ELSE Max({parseBackupTimestamp(x).t : x \in Timestamped(d)})

\* ---------------------------------------------------------- status table

MapGet(m, j, default) == IF j \in DOMAIN m THEN m[j] ELSE default

getLastActionType(m, j) == IF j \in DOMAIN m THEN m[j].LastActionType ELSE ""
getLastActionTime(m, j) == IF j \in DOMAIN m THEN m[j].LastActionTime ELSE ZeroTime

\* what calculateDirectoryHash can give for a source: the hash, or an error
NoHash == [st |-> "none", h |-> calculateDirectoryHash(0)]
HashFailed == [st |-> "failed", h |-> calculateDirectoryHash(0)]
HashOutcomes(c) == {[st |-> "ok", h |-> calculateDirectoryHash(c)], HashFailed}

SkipsWithoutRecord(m, j, cu) ==
    IF cu.st = "failed" THEN [skip |-> FALSE, err |-> TRUE]
    ELSE IF j \notin DOMAIN m THEN [skip |-> TRUE, err |-> FALSE]
    ELSE [skip |-> cu.h = m[j].LastHash, err |-> FALSE]
\* shouldSkipBackup, given the outcome cu of calculateDirectoryHash
shouldSkipBackup(m, j, cu) ==
    IF cu.st = "failed" THEN [skip |-> FALSE, err |-> TRUE]
    ELSE IF j \notin DOMAIN m THEN [skip |-> FALSE, err |-> FALSE]
    ELSE [skip |-> cu.h = m[j].LastHash, err |-> FALSE]

\* the effective last time of initializeSchedule
StatusEffectiveLastTime(c, m, j, d, cu) ==
    LET lastBackupTime == findLastBackupTime(d)
        lastActionType == getLastActionType(m, j)
        lastActionTime == getLastActionTime(m, j)
        r == shouldSkipBackup(m, j, cu)
    IN  IF IsHashCheckEnabled(c)
        THEN IF lastActionType = "skipped" /\ lastActionTime # ZeroTime
             THEN IF r.err \/ ~r.skip THEN lastBackupTime ELSE lastActionTime
             ELSE lastBackupTime
        ELSE lastBackupTime

\* startBackupScheduler: backupStatus.initializeSchedule(config)
InitializeSchedule(j) ==
    /\ ~crashed
    /\ pc[j] = "start"
    /\ \E cu \in HashOutcomes(content[j]) :
          LET effectiveLastTime == StatusEffectiveLastTime(cfg[j], hashes, j, disk[j], cu)
          IN  IF effectiveLastTime # ZeroTime
              THEN /\ lastBackupTimes' = PutEntry(lastBackupTimes, j, effectiveLastTime)
                   /\ nextBackupTimes' =
                         PutEntry(nextBackupTimes, j, effectiveLastTime + cfg[j].ScheduleMinutes)
              ELSE /\ lastBackupTimes' = lastBackupTimes
                   /\ nextBackupTimes' =
                         PutEntry(nextBackupTimes, j, clock + cfg[j].ScheduleMinutes)
    /\ pc' = [pc EXCEPT ![j] = "first"]
    /\ UNCHANGED <<clock, content, cfg, schedVars, hashes, file, crashed, disk, cleanupVars, callVars>>
    /\ UNCHANGED <<err, act, cur, rec, dir, pre, wrote, prev, unchangedSince, captured>>

\* updateBackupCompleted(config.Name, config.ScheduleMinutes)
updateBackupCompleted(j) ==
    /\ lastBackupTimes' = PutEntry(lastBackupTimes, j, clock)
    /\ nextBackupTimes' = PutEntry(nextBackupTimes, j, clock + cfg[j].ScheduleMinutes)

\* ------------------------------------------------------------- the tick

\* the status and the record of a job, for the history variable pre; the
\* outcome of the tick before, for the history variable prev
StatusOf(j) ==
    [hasLast |-> j \in DOMAIN lastBackupTimes, last |-> MapGet(lastBackupTimes, j, ZeroTime),
     hasNext |-> j \in DOMAIN nextBackupTimes, next |-> MapGet(nextBackupTimes, j, ZeroTime)]
RecordOf(j) == [has |-> j \in DOMAIN hashes, e |-> MapGet(hashes, j, NoEntry)]
NoPrev == [err |-> "none", act |-> "none", rec |-> "none"]
NoStatus == [hasLast |-> FALSE, last |-> ZeroTime, hasNext |-> FALSE, next |-> ZeroTime]
NoPre ==
    [status |-> NoStatus, record |-> [has |-> FALSE, e |-> NoEntry], file |-> NoFile,
     dirs |-> {}, cancelled |-> FALSE, lastTick |-> ZeroTime]
\* the scheduler of a job has not computed its first delay; lastTick is the
\* time its last tick began, ZeroTime before the first one
NoSched ==
    [planned |-> FALSE, now |-> ZeroTime, cu |-> NoHash, effectiveLastTime |-> ZeroTime,
     firstBackupDelay |-> 0, lastTick |-> ZeroTime]

Min(a, b) == IF a < b THEN a ELSE b

DecisionSkipsOnHashError(c, m, j, cu) ==
    IF ~IsHashCheckEnabled(c) THEN "copy"
    ELSE IF shouldSkipBackup(m, j, cu).err THEN "skip"
    ELSE IF shouldSkipBackup(m, j, cu).skip THEN "skip"
    ELSE "copy"
\* executeBackup: the tick is a skip, or goes on to performBackup
Decision(c, m, j, cu) ==
    IF ~IsHashCheckEnabled(c) THEN "copy"
    ELSE IF shouldSkipBackup(m, j, cu).err THEN "copy"
    ELSE IF shouldSkipBackup(m, j, cu).skip THEN "skip"
    ELSE "copy"

SchedulerEffectiveLastTimeFromDiskOnly(c, m, j, d, cu) == findLastBackupTime(d)
SchedulerEffectiveLastTimeKeepsStaleSkip(c, m, j, d, cu) ==
    LET lastBackupTime == findLastBackupTime(d)
        lastActionType == getLastActionType(m, j)
        lastActionTime == getLastActionTime(m, j)
        r == shouldSkipBackup(m, j, cu)
    IN  IF IsHashCheckEnabled(c)
        THEN IF lastActionType = "skipped" /\ lastActionTime # ZeroTime
             THEN IF r.err \/ ~r.skip THEN lastBackupTime ELSE lastActionTime
             ELSE lastBackupTime
        ELSE lastBackupTime
SchedulerEffectiveLastTimeFromRecord(c, m, j, d, cu) ==
    LET lastBackupTime == findLastBackupTime(d)
        lastActionTime == getLastActionTime(m, j)
    IN  IF IsHashCheckEnabled(c) /\ lastActionTime # ZeroTime
        THEN lastActionTime
        ELSE lastBackupTime
SchedulerEffectiveLastTimeIgnoringTheFlag(c, m, j, d, cu) ==
    LET lastBackupTime == findLastBackupTime(d)
        lastActionType == getLastActionType(m, j)
        lastActionTime == getLastActionTime(m, j)
        r == shouldSkipBackup(m, j, cu)
    IN  IF lastActionType = "skipped" /\ lastActionTime # ZeroTime
        THEN IF r.err THEN lastBackupTime
             ELSE IF r.skip THEN lastActionTime
             ELSE ZeroTime
        ELSE lastBackupTime
SchedulerEffectiveLastTimeUnknownOnHashError(c, m, j, d, cu) ==
    LET lastBackupTime == findLastBackupTime(d)
        lastActionType == getLastActionType(m, j)
        lastActionTime == getLastActionTime(m, j)
        r == shouldSkipBackup(m, j, cu)
    IN  IF IsHashCheckEnabled(c)
        THEN IF lastActionType = "skipped" /\ lastActionTime # ZeroTime
             THEN IF r.err THEN ZeroTime
                  ELSE IF r.skip THEN lastActionTime
                  ELSE ZeroTime
             ELSE lastBackupTime
        ELSE lastBackupTime
\* the effective last time of startBackupScheduler
SchedulerEffectiveLastTime(c, m, j, d, cu) ==
    LET lastBackupTime == findLastBackupTime(d)
        lastActionType == getLastActionType(m, j)
        lastActionTime == getLastActionTime(m, j)
        r == shouldSkipBackup(m, j, cu)
    IN  IF IsHashCheckEnabled(c)
        THEN IF lastActionType = "skipped" /\ lastActionTime # ZeroTime
             THEN IF r.err THEN lastBackupTime
                  ELSE IF r.skip THEN lastActionTime
                  ELSE ZeroTime
             ELSE lastBackupTime
        ELSE lastBackupTime

firstBackupDelayNeverClamped(effectiveLastTime, now, scheduleInterval) ==
    IF effectiveLastTime = ZeroTime THEN 0
    ELSE scheduleInterval - (now - effectiveLastTime)
\* startBackupScheduler: the delay of the first backup
firstBackupDelay(effectiveLastTime, now, scheduleInterval) ==
    IF effectiveLastTime = ZeroTime THEN 0
    ELSE IF now - effectiveLastTime >= scheduleInterval THEN 0
    ELSE scheduleInterval - (now - effectiveLastTime)

\* startBackupScheduler: effectiveLastTime and firstBackupDelay are computed
\* and the first timer is created
PlanFirstBackup(j) ==
    /\ ~crashed
    /\ pc[j] = "first"
    /\ \E cu \in HashOutcomes(content[j]) :
          LET effectiveLastTime == SchedulerEffectiveLastTime(cfg[j], hashes, j, disk[j], cu)
              delay == firstBackupDelay(effectiveLastTime, clock, cfg[j].ScheduleMinutes)
          IN  sched' = [sched EXCEPT ![j] =
                           [planned |-> TRUE, now |-> clock, cu |-> cu,
                            effectiveLastTime |-> effectiveLastTime,
                            firstBackupDelay |-> delay, lastTick |-> ZeroTime]]
    /\ timer' = [timer EXCEPT ![j] = "armed"]
    /\ pc' = [pc EXCEPT ![j] = "firstWait"]
    /\ UNCHANGED <<clock, content, cfg, cancelled, hashes, file, crashed, disk>>
    /\ UNCHANGED <<statusVars, cleanupVars, callVars>>
    /\ UNCHANGED <<err, act, cur, rec, dir, pre, wrote, prev, unchangedSince, captured>>

\* time.NewTimer(firstBackupDelay): the timer fires, firstBackupDelay after
\* its creation, and firstTimer.C holds a value
FirstTimerFires(j) ==
    /\ ~crashed
    /\ pc[j] = "firstWait"
    /\ timer[j] = "armed"
    /\ clock + sched[j].firstBackupDelay <= MaxClock
    /\ clock' = clock + sched[j].firstBackupDelay
    /\ timer' = [timer EXCEPT ![j] = "fired"]
    /\ UNCHANGED <<content, cfg, sched, cancelled, hashes, file, crashed, disk>>
    /\ UNCHANGED <<statusVars, tickVars, cleanupVars, callVars>>

TickerPeriodRetriesAfterFailure(j) ==
    IF err[j] \in {"nil", "none"} THEN cfg[j].ScheduleMinutes ELSE 0
\* scheduleInterval, the period of the ticker of the loop
TickerPeriod(j) == cfg[j].ScheduleMinutes

\* time.NewTicker(scheduleInterval): the ticker fires while the goroutine
\* waits in the select of the loop, and ticker.C holds a value
TickerFires(j) ==
    /\ ~crashed
    /\ pc[j] = "idle"
    /\ timer[j] = "armed"
    /\ clock + TickerPeriod(j) <= MaxClock
    /\ clock' = clock + TickerPeriod(j)
    /\ timer' = [timer EXCEPT ![j] = "fired"]
    /\ UNCHANGED <<content, cfg, sched, cancelled, hashes, file, crashed, disk>>
    /\ UNCHANGED <<statusVars, tickVars, cleanupVars, callVars>>

\* the pcs of a goroutine inside performBackupTask
InTask ==
    {"decide", "skipRecord", "skipStatus", "mkdir", "copy", "cleanup", "cleanupLoop",
     "status", "record", "return"}

\* the ticker fires while the goroutine is inside performBackupTask, a task
\* that outlasts the period (the clock stays within MaxLate):
\* ticker.C has room for one value, and a tick that finds it full is dropped
TickerFiresDuringTask(j) ==
    /\ ~crashed
    /\ pc[j] \in InTask
    /\ timer[j] \in {"armed", "fired"}
    /\ clock + TickerPeriod(j) <= MaxLate
    /\ clock' = clock + TickerPeriod(j)
    /\ timer' = [timer EXCEPT ![j] = "fired"]
    /\ UNCHANGED <<content, cfg, sched, cancelled, hashes, file, crashed, disk>>
    /\ UNCHANGED <<statusVars, tickVars, cleanupVars, callVars>>

\* onReady: cancel() is called, on a click on Quit or on a signal
Cancel ==
    /\ ~crashed
    /\ ~cancelled
    /\ cancelled' = TRUE
    /\ UNCHANGED <<clock, content, cfg, sched, timer, hashes, file, crashed, disk>>
    /\ UNCHANGED <<statusVars, tickVars, cleanupVars, callVars>>

\* startBackupScheduler: the first select takes case <-ctx.Done()
StopBeforeFirst(j) ==
    /\ ~crashed
    /\ pc[j] = "firstWait"
    /\ cancelled
    /\ pc' = [pc EXCEPT ![j] = "stopped"]
    /\ UNCHANGED <<clock, content, cfg, schedVars, hashes, file, crashed, disk>>
    /\ UNCHANGED <<statusVars, cleanupVars, callVars>>
    /\ UNCHANGED <<err, act, cur, rec, dir, pre, wrote, prev, unchangedSince, captured>>

\* startBackupScheduler: the select of the loop takes case <-ctx.Done()
StopInLoop(j) ==
    /\ ~crashed
    /\ pc[j] = "idle"
    /\ cancelled
    /\ pc' = [pc EXCEPT ![j] = "stopped"]
    /\ UNCHANGED <<clock, content, cfg, schedVars, hashes, file, crashed, disk>>
    /\ UNCHANGED <<statusVars, cleanupVars, callVars>>
    /\ UNCHANGED <<err, act, cur, rec, dir, pre, wrote, prev, unchangedSince, captured>>

\* performBackupTask calls executeBackup: the tick begins
BeginTick(j) ==
    /\ pre' = [pre EXCEPT ![j] =
                  [status |-> StatusOf(j), record |-> RecordOf(j), file |-> file,
                   dirs |-> BackupDirs(disk[j]), cancelled |-> cancelled,
                   lastTick |-> sched[j].lastTick]]
    /\ prev' = [prev EXCEPT ![j] = [err |-> err[j], act |-> act[j], rec |-> rec[j]]]
    /\ unchangedSince' = [unchangedSince EXCEPT ![j] = Min(2, @ + 1)]
    /\ err' = [err EXCEPT ![j] = "none"]
    /\ rec' = [rec EXCEPT ![j] = "none"]
    /\ IF IsHashCheckEnabled(cfg[j])
       THEN /\ pc' = [pc EXCEPT ![j] = "decide"]
            /\ act' = [act EXCEPT ![j] = "none"]
       ELSE /\ pc' = [pc EXCEPT ![j] = "mkdir"]
            /\ act' = [act EXCEPT ![j] = Decision(cfg[j], hashes, j, NoHash)]
    /\ UNCHANGED <<clock, content, cfg, cancelled, hashes, file, crashed, disk>>
    /\ UNCHANGED <<statusVars, cleanupVars, callVars>>
    /\ UNCHANGED <<cur, dir, wrote, captured>>

\* startBackupScheduler: the first select takes case <-firstTimer.C; when
\* ctx.Done() is ready as well, select takes either case
FirstTick(j) ==
    /\ ~crashed
    /\ pc[j] = "firstWait"
    /\ timer[j] = "fired"
    /\ timer' = [timer EXCEPT ![j] = "none"]
    /\ sched' = [sched EXCEPT ![j] = [NoSched EXCEPT !.lastTick = clock]]
    /\ BeginTick(j)

\* startBackupScheduler: the select of the loop takes case <-ticker.C; when
\* ctx.Done() is ready as well, select takes either case
StartTickInNewGoroutine(j) ==
    /\ ~crashed
    /\ pc[j] \in InTask \cup {"idle"}
    /\ timer[j] = "fired"
    /\ timer' = [timer EXCEPT ![j] = "armed"]
    /\ sched' = [sched EXCEPT ![j].lastTick = clock]
    /\ BeginTick(j)
StartTick(j) ==
    /\ ~crashed
    /\ pc[j] = "idle"
    /\ timer[j] = "fired"
    /\ timer' = [timer EXCEPT ![j] = "armed"]
    /\ sched' = [sched EXCEPT ![j].lastTick = clock]
    /\ BeginTick(j)

DecideCopiesAnyway(j) ==
    /\ ~crashed
    /\ pc[j] = "decide"
    /\ \E cu \in HashOutcomes(content[j]) :
          /\ cur' = [cur EXCEPT ![j] = cu]
          /\ act' = [act EXCEPT ![j] = Decision(cfg[j], hashes, j, cu)]
          /\ pc' = [pc EXCEPT ![j] = "mkdir"]
    /\ UNCHANGED <<clock, content, cfg, schedVars, hashes, file, crashed, disk, statusVars, cleanupVars, callVars>>
    /\ UNCHANGED <<err, rec, dir, pre, wrote, prev, unchangedSince, captured>>
\* executeBackup: hashManager.shouldSkipBackup(config.Name, config.Source)
Decide(j) ==
    /\ ~crashed
    /\ pc[j] = "decide"
    /\ \E cu \in HashOutcomes(content[j]) :
          /\ cur' = [cur EXCEPT ![j] = cu]
          /\ act' = [act EXCEPT ![j] = Decision(cfg[j], hashes, j, cu)]
          /\ pc' = [pc EXCEPT ![j] =
                       IF Decision(cfg[j], hashes, j, cu) = "skip" THEN "skipRecord" ELSE "mkdir"]
    /\ UNCHANGED <<clock, content, cfg, schedVars, hashes, file, crashed, disk, statusVars, cleanupVars, callVars>>
    /\ UNCHANGED <<err, rec, dir, pre, wrote, prev, unchangedSince, captured>>

recordActionAlwaysBackup(m, f, j, kind, c, now) ==
    LET e == HashStatus(calculateDirectoryHash(c), "backup", now)
        m2 == PutEntry(m, j, e)
        bytes == MarshalIndent(m2)
    IN  {[hashes |-> m, file |-> f, ret |-> "hash error", wrote |-> FALSE],
         [hashes |-> m2, file |-> FileOf(bytes), ret |-> "nil", wrote |-> TRUE],
         [hashes |-> m2, file |-> f, ret |-> "save error", wrote |-> FALSE]}
        \cup {[hashes |-> m2, file |-> FileOf(SubSeq(bytes, 1, n)), ret |-> "save error",
               wrote |-> TRUE] : n \in 0 .. Len(bytes) - 1}
recordActionForgetsTheHash(m, f, j, kind, c, now) ==
    {[hashes |-> m, file |-> f, ret |-> "nil", wrote |-> FALSE]}
\* recordAction of a job whose call no other call overlaps: what it can leave
\* in the map and in the file, and what it returns. The write of the file
\* can fail at the open, or after the truncation with some chunks written.
recordAction(m, f, j, kind, c, now) ==
    LET e == HashStatus(calculateDirectoryHash(c), kind, now)
        m2 == PutEntry(m, j, e)
        bytes == MarshalIndent(m2)
    IN  {[hashes |-> m, file |-> f, ret |-> "hash error", wrote |-> FALSE],
         [hashes |-> m2, file |-> FileOf(bytes), ret |-> "nil", wrote |-> TRUE],
         [hashes |-> m2, file |-> f, ret |-> "save error", wrote |-> FALSE]}
        \cup {[hashes |-> m2, file |-> FileOf(SubSeq(bytes, 1, n)), ret |-> "save error",
               wrote |-> TRUE] : n \in 0 .. Len(bytes) - 1}

\* executeBackup, content unchanged: recordAction(..., "skipped")
SkipRecord(j) ==
    /\ ~crashed
    /\ pc[j] = "skipRecord"
    /\ \E o \in recordAction(hashes, file, j, "skipped", content[j], clock) :
          /\ hashes' = o.hashes
          /\ file' = o.file
          /\ rec' = [rec EXCEPT ![j] = o.ret]
          /\ wrote' = [wrote EXCEPT ![j] = @ \/ o.wrote]
    /\ pc' = [pc EXCEPT ![j] = "skipStatus"]
    /\ UNCHANGED <<clock, content, cfg, schedVars, crashed, disk, statusVars, cleanupVars, callVars>>
    /\ UNCHANGED <<err, act, cur, dir, pre, prev, unchangedSince, captured>>

\* executeBackup, content unchanged: updateBackupCompleted and return nil
SkipStatus(j) ==
    /\ ~crashed
    /\ pc[j] = "skipStatus"
    /\ updateBackupCompleted(j)
    /\ pc' = [pc EXCEPT ![j] = "return"]
    /\ err' = [err EXCEPT ![j] = "nil"]
    /\ UNCHANGED <<clock, content, cfg, schedVars, hashes, file, crashed, disk, cleanupVars, callVars>>
    /\ UNCHANGED <<act, cur, rec, dir, pre, wrote, prev, unchangedSince, captured>>

performBackupGoesOnAfterError(step, e) ==
    IF step = "mkdir" THEN "copy"
    ELSE IF step = "copy" THEN "cleanup"
    ELSE IF step = "cleanup" THEN "status"
    ELSE "return"
performBackupCleansBeforeCopy(step, e) ==
    IF e # "nil" THEN "return"
    ELSE IF step = "mkdir" THEN "cleanup"
    ELSE IF step = "cleanup" THEN "copy"
    ELSE IF step = "copy" THEN "status"
    ELSE "return"
\* performBackup: the step after a step that returned e; an error returns
performBackupNext(step, e) ==
    IF e # "nil" THEN "return"
    ELSE IF step = "mkdir" THEN "copy"
    ELSE IF step = "copy" THEN "cleanup"
    ELSE IF step = "cleanup" THEN "status"
    ELSE "return"

\* the directory of this tick, as the copy leaves it at time now
Written(d, n, now, c) == {x \in d : x.name # n} \cup {Snapshot(n, now, c)}

\* performBackup step 1: timestamp := time.Now(); os.MkdirAll(backupDir)
Mkdir(j) ==
    /\ ~crashed
    /\ pc[j] = "mkdir"
    /\ dir' = [dir EXCEPT ![j] = clock]
    /\ disk' = [disk EXCEPT ![j] =
                   IF \E x \in @ : x.name = clock THEN @ ELSE @ \cup {Snapshot(clock, clock, FALSE)}]
    /\ pc' = [pc EXCEPT ![j] = performBackupNext("mkdir", "nil")]
    /\ UNCHANGED <<clock, content, cfg, schedVars, hashes, file, crashed, statusVars, cleanupVars, callVars>>
    /\ UNCHANGED <<err, act, cur, rec, pre, wrote, prev, unchangedSince, captured>>

\* performBackup step 1 fails
MkdirError(j) ==
    /\ ~crashed
    /\ pc[j] = "mkdir"
    /\ dir' = [dir EXCEPT ![j] = clock]
    /\ pc' = [pc EXCEPT ![j] = performBackupNext("mkdir", "mkdir")]
    /\ err' = [err EXCEPT ![j] = "mkdir"]
    /\ UNCHANGED <<clock, content, cfg, schedVars, hashes, file, crashed, disk, statusVars, cleanupVars, callVars>>
    /\ UNCHANGED <<act, cur, rec, pre, wrote, prev, unchangedSince, captured>>

\* the history of the contents copied, which is kept in SpecRecord only
NotKept == {-1}
Copied(s, c) == IF s = NotKept THEN s ELSE s \cup {c}

\* performBackup step 2: copyDir(config.Source, backupDir) returns nil
CopyDir(j) ==
    /\ ~crashed
    /\ pc[j] = "copy"
    /\ disk' = [disk EXCEPT ![j] = Written(@, dir[j], clock, TRUE)]
    /\ captured' = [captured EXCEPT ![j] = Copied(@, content[j])]
    /\ pc' = [pc EXCEPT ![j] = performBackupNext("copy", "nil")]
    /\ UNCHANGED <<clock, content, cfg, schedVars, hashes, file, crashed, statusVars, cleanupVars, callVars>>
    /\ UNCHANGED <<err, act, cur, rec, dir, pre, wrote, prev, unchangedSince>>

\* performBackup step 2 fails: what was copied so far stays on the disk
CopyDirError(j) ==
    /\ ~crashed
    /\ pc[j] = "copy"
    /\ disk' = [disk EXCEPT ![j] = Written(@, dir[j], clock, FALSE)]
    /\ pc' = [pc EXCEPT ![j] = performBackupNext("copy", "copy")]
    /\ err' = [err EXCEPT ![j] = "copy"]
    /\ UNCHANGED <<clock, content, cfg, schedVars, hashes, file, crashed, statusVars, cleanupVars, callVars>>
    /\ UNCHANGED <<act, cur, rec, dir, pre, wrote, prev, unchangedSince, captured>>

\* ---------------------------------------------------- cleanupOldBackups

\* all the orders of the directories of S
Orders(S) ==
    {f \in [1 .. Cardinality(S) -> S] : \A a, b \in 1 .. Cardinality(S) : f[a] = f[b] => a = b}

AnyOrder(f) == TRUE
\* sort.Slice(dirInfos, modTime.Before): oldest first, equal times in any order
SortedByModTime(f) == \A a, b \in 1 .. Len(f) : a < b => f[a].mtime <= f[b].mtime

ToDeleteNothing(n, r) == 0
ToDeleteOneLess(n, r) == n - r - 1
\* toDelete := len(dirInfos) - config.RotationCount
ToDelete(n, r) == n - r

\* cleanupOldBackups, os.ReadDir(config.Destination) fails
CleanupReadDirError(j) ==
    /\ ~crashed
    /\ pc[j] = "cleanup"
    /\ pc' = [pc EXCEPT ![j] = performBackupNext("cleanup", "cleanup")]
    /\ err' = [err EXCEPT ![j] = "cleanup"]
    /\ listed' = [listed EXCEPT ![j] = {}]
    /\ deleted' = [deleted EXCEPT ![j] = {}]
    /\ dirInfos' = [dirInfos EXCEPT ![j] = <<>>]
    /\ idx' = [idx EXCEPT ![j] = 0]
    /\ UNCHANGED <<clock, content, cfg, schedVars, hashes, file, crashed, disk, statusVars, callVars>>
    /\ UNCHANGED <<act, cur, rec, dir, pre, wrote, prev, unchangedSince, captured>>

\* cleanupOldBackups: len(backupDirs) <= config.RotationCount, nothing to do
WithinRotationCount(n, rotationCount) == n <= rotationCount

\* cleanupOldBackups up to the loop: the directories are listed; within the
\* rotation limit it returns nil; else those whose entry.Info() succeeds are
\* sorted by modification time
CleanupList(j) ==
    /\ ~crashed
    /\ pc[j] = "cleanup"
    /\ listed' = [listed EXCEPT ![j] = BackupDirs(disk[j])]
    /\ deleted' = [deleted EXCEPT ![j] = {}]
    /\ idx' = [idx EXCEPT ![j] = 0]
    /\ IF WithinRotationCount(Cardinality(BackupDirs(disk[j])), cfg[j].RotationCount)
       THEN /\ dirInfos' = [dirInfos EXCEPT ![j] = <<>>]
            /\ pc' = [pc EXCEPT ![j] = performBackupNext("cleanup", "nil")]
       ELSE /\ \E S \in SUBSET BackupDirs(disk[j]) : \E f \in Orders(S) :
                  /\ SortedByModTime(f)
                  /\ dirInfos' = [dirInfos EXCEPT ![j] = f]
            /\ pc' = [pc EXCEPT ![j] = "cleanupLoop"]
    /\ UNCHANGED <<clock, content, cfg, schedVars, hashes, file, crashed, disk, statusVars, callVars>>
    /\ UNCHANGED <<err, act, cur, rec, dir, pre, wrote, prev, unchangedSince, captured>>

\* the loop condition i < toDelete
InLoop(j) == idx[j] < ToDelete(Len(dirInfos[j]), cfg[j].RotationCount)

\* the loop body: os.RemoveAll(dirPath) returns nil
CleanupRemove(j) ==
    /\ ~crashed
    /\ pc[j] = "cleanupLoop"
    /\ InLoop(j)
    /\ idx[j] < Len(dirInfos[j])
    /\ disk' = [disk EXCEPT ![j] = @ \ {dirInfos[j][idx[j] + 1]}]
    /\ deleted' = [deleted EXCEPT ![j] = @ \cup {dirInfos[j][idx[j] + 1]}]
    /\ idx' = [idx EXCEPT ![j] = @ + 1]
    /\ UNCHANGED <<clock, content, cfg, schedVars, hashes, file, crashed, statusVars, callVars>>
    /\ UNCHANGED <<dirInfos, listed, tickVars>>

CleanupRemoveErrorGoesOn(j) ==
    /\ ~crashed
    /\ pc[j] = "cleanupLoop"
    /\ InLoop(j)
    /\ idx[j] < Len(dirInfos[j])
    /\ idx' = [idx EXCEPT ![j] = @ + 1]
    /\ err' = [err EXCEPT ![j] = "cleanup"]
    /\ UNCHANGED <<clock, content, cfg, schedVars, hashes, file, crashed, disk, statusVars, callVars>>
    /\ UNCHANGED <<pc, dirInfos, listed, deleted, act, cur, rec, dir, pre, wrote, prev, unchangedSince, captured>>
\* the loop body: os.RemoveAll(dirPath) fails and cleanupOldBackups returns
CleanupRemoveError(j) ==
    /\ ~crashed
    /\ pc[j] = "cleanupLoop"
    /\ InLoop(j)
    /\ idx[j] < Len(dirInfos[j])
    /\ pc' = [pc EXCEPT ![j] = performBackupNext("cleanup", "cleanup")]
    /\ err' = [err EXCEPT ![j] = "cleanup"]
    /\ UNCHANGED <<clock, content, cfg, schedVars, hashes, file, crashed, disk, statusVars, callVars>>
    /\ UNCHANGED <<cleanupVars, act, cur, rec, dir, pre, wrote, prev, unchangedSince, captured>>

\* the loop body: dirInfos[i] with i past the end of the slice panics, and
\* a panic of a goroutine ends the process
CleanupPanic(j) ==
    /\ ~crashed
    /\ pc[j] = "cleanupLoop"
    /\ InLoop(j)
    /\ idx[j] >= Len(dirInfos[j])
    /\ pc' = [pc EXCEPT ![j] = "panic"]
    /\ crashed' = TRUE
    /\ UNCHANGED <<clock, content, cfg, schedVars, hashes, file, disk, statusVars, callVars>>
    /\ UNCHANGED <<cleanupVars, err, act, cur, rec, dir, pre, wrote, prev, unchangedSince, captured>>

\* the loop ends and cleanupOldBackups returns nil
CleanupReturn(j) ==
    /\ ~crashed
    /\ pc[j] = "cleanupLoop"
    /\ ~InLoop(j)
    /\ pc' = [pc EXCEPT ![j] = performBackupNext("cleanup", "nil")]
    /\ UNCHANGED <<clock, content, cfg, schedVars, hashes, file, crashed, disk, statusVars, callVars>>
    /\ UNCHANGED <<cleanupVars, err, act, cur, rec, dir, pre, wrote, prev, unchangedSince, captured>>

\* performBackup step 4: updateBackupCompleted; without hash check it
\* returns nil here
UpdateStatus(j) ==
    /\ ~crashed
    /\ pc[j] = "status"
    /\ updateBackupCompleted(j)
    /\ IF IsHashCheckEnabled(cfg[j])
       THEN /\ pc' = [pc EXCEPT ![j] = "record"]
            /\ err' = err
       ELSE /\ pc' = [pc EXCEPT ![j] = "return"]
            /\ err' = [err EXCEPT ![j] = "nil"]
    /\ UNCHANGED <<clock, content, cfg, schedVars, hashes, file, crashed, disk, cleanupVars, callVars>>
    /\ UNCHANGED <<act, cur, rec, dir, pre, wrote, prev, unchangedSince, captured>>

performBackupReturnsTheRecordError(e) == IF e = "nil" THEN "nil" ELSE "record"
\* performBackup: what it returns after recordAction has returned e
performBackupAfterRecord(e) == "nil"

\* performBackup step 5: recordAction(..., "backup"), whose error is only
\* logged; performBackup returns nil
Record(j) ==
    /\ ~crashed
    /\ pc[j] = "record"
    /\ \E o \in recordAction(hashes, file, j, "backup", content[j], clock) :
          /\ hashes' = o.hashes
          /\ file' = o.file
          /\ rec' = [rec EXCEPT ![j] = o.ret]
          /\ wrote' = [wrote EXCEPT ![j] = @ \/ o.wrote]
          /\ err' = [err EXCEPT ![j] = performBackupAfterRecord(o.ret)]
    /\ pc' = [pc EXCEPT ![j] = "return"]
    /\ UNCHANGED <<clock, content, cfg, schedVars, crashed, disk, statusVars, cleanupVars, callVars>>
    /\ UNCHANGED <<act, cur, dir, pre, prev, unchangedSince, captured>>

\* performBackupTask: executeBackup has returned, its error is logged, and
\* the goroutine waits for the ticker, which is created after the first
\* task; the locals of the tick are gone
Return(j) ==
    /\ ~crashed
    /\ pc[j] = "return"
    /\ pc' = [pc EXCEPT ![j] = "idle"]
    /\ timer' = [timer EXCEPT ![j] = IF @ = "none" THEN "armed" ELSE @]
    /\ cur' = [cur EXCEPT ![j] = NoHash]
    /\ dir' = [dir EXCEPT ![j] = ZeroTime]
    /\ pre' = [pre EXCEPT ![j] = NoPre]
    /\ prev' = [prev EXCEPT ![j] = NoPrev]
    /\ wrote' = [wrote EXCEPT ![j] = FALSE]
    /\ dirInfos' = [dirInfos EXCEPT ![j] = <<>>]
    /\ idx' = [idx EXCEPT ![j] = 0]
    /\ listed' = [listed EXCEPT ![j] = {}]
    /\ deleted' = [deleted EXCEPT ![j] = {}]
    /\ UNCHANGED <<clock, content, cfg, sched, cancelled, hashes, file, crashed, disk>>
    /\ UNCHANGED <<statusVars, callVars>>
    /\ UNCHANGED <<err, act, rec, unchangedSince, captured>>

\* where the goroutine of a job is about to read the source folder, or waits
ReadsSource ==
    {"start", "first", "firstWait", "idle", "decide", "skipRecord", "copy", "record"}

\* the user changes the source folder; a change takes effect when the job
\* next reads the folder, and is modelled at the steps before a read
ChangeContent(j) ==
    /\ ~crashed
    /\ pc[j] \in ReadsSource
    /\ \E c \in Contents \ {content[j]} : content' = [content EXCEPT ![j] = c]
    /\ unchangedSince' = [unchangedSince EXCEPT ![j] = 0]
    /\ UNCHANGED <<clock, cfg, schedVars, hashes, file, crashed, disk, statusVars, cleanupVars, callVars>>
    /\ UNCHANGED <<pc, err, act, cur, rec, dir, pre, wrote, prev, captured>>

\* ------------------------------------------- the two locks, call by call

\* a lock operation on BackupStatus.mu ("bs") or HashManager.mu ("hm"), and
\* a piece of I/O: the scan of the destination, the hash of the source, the
\* copy, the removal of old backups, the write of hashes.json
LockOp(o, l) == [op |-> o, l |-> l]
IO(what) == [op |-> "io", l |-> what]

\* getLastActionType, getLastActionTime: RLock and the deferred RUnlock
getLastActionOps == <<LockOp("RLock", "hm"), LockOp("RUnlock", "hm")>>

\* shouldSkipBackup: the hash, then the lookup under the read lock; a hash
\* error returns before the lock
shouldSkipBackupOps(hashFails) ==
    IF hashFails THEN <<IO("hash")>>
    ELSE <<IO("hash"), LockOp("RLock", "hm"), LockOp("RUnlock", "hm")>>

\* saveToFile: RLock, MarshalIndent and os.WriteFile, the deferred RUnlock
saveToFileOps == <<LockOp("RLock", "hm"), IO("store"), LockOp("RUnlock", "hm")>>

\* recordAction: the hash, the store under the write lock, then saveToFile
recordActionOps(hashFails) ==
    IF hashFails THEN <<IO("hash")>>
    ELSE <<IO("hash"), LockOp("Lock", "hm"), LockOp("Unlock", "hm")>> \o saveToFileOps

\* updateBackupCompleted: Lock and the deferred Unlock
updateBackupCompletedOps == <<LockOp("Lock", "bs"), LockOp("Unlock", "bs")>>

\* the hash-aware part of initializeSchedule and of startBackupScheduler
HashAwareOps(c, lastSkip, hashFails) ==
    IF IsHashCheckEnabled(c)
    THEN getLastActionOps \o getLastActionOps
         \o (IF lastSkip THEN shouldSkipBackupOps(hashFails) ELSE <<>>)
    ELSE <<>>

\* initializeSchedule: Lock, findLastBackupTime, the hash-aware part, the
\* stores into the maps, the deferred Unlock
initializeScheduleOps(c, lastSkip, hashFails) ==
    <<LockOp("Lock", "bs"), IO("scan")>> \o HashAwareOps(c, lastSkip, hashFails)
    \o <<LockOp("Unlock", "bs")>>

\* startBackupScheduler after initializeSchedule, up to the first timer
schedulerStartOps(c, lastSkip, hashFails) ==
    <<IO("scan")>> \o HashAwareOps(c, lastSkip, hashFails)

\* performBackup: MkdirAll and copyDir, cleanupOldBackups (ReadDir, then
\* RemoveAll), updateBackupCompleted, recordAction under the flag
performBackupOps(c, hashFails) ==
    <<IO("copy"), IO("scan"), IO("delete")>> \o updateBackupCompletedOps
    \o (IF IsHashCheckEnabled(c) THEN recordActionOps(hashFails) ELSE <<>>)

\* executeBackup: shouldSkipBackup under the flag, then the skip
\* (recordAction, updateBackupCompleted) or performBackup
executeBackupOps(c, skips, hashFails) ==
    IF IsHashCheckEnabled(c)
    THEN shouldSkipBackupOps(hashFails)
         \o (IF skips /\ ~hashFails
             THEN recordActionOps(hashFails) \o updateBackupCompletedOps
             ELSE performBackupOps(c, hashFails))
    ELSE performBackupOps(c, hashFails)

\* the run of the scheduler of a job with configuration c through its first
\* tick, for each way its branches can go
JobPaths(c) ==
    {initializeScheduleOps(c, lastSkip, hashFails) \o schedulerStartOps(c, lastSkip, hashFails)
        \o executeBackupOps(c, skips, hashFails) :
            lastSkip \in BOOLEAN, skips \in BOOLEAN, hashFails \in BOOLEAN}

getLastBackupStatusStoreFirst ==
    <<LockOp("RLock", "hm"), LockOp("RLock", "bs"), LockOp("RUnlock", "bs"),
      LockOp("RUnlock", "hm")>>
\* getLastBackupStatus: RLock, hashManager.getLastActionType, the deferred
\* RUnlock
getLastBackupStatusOps ==
    <<LockOp("RLock", "bs")>> \o getLastActionOps \o <<LockOp("RUnlock", "bs")>>

\* getNextBackupStatus: RLock and the deferred RUnlock
getNextBackupStatusOps == <<LockOp("RLock", "bs"), LockOp("RUnlock", "bs")>>

\* one refresh of the menu titles
UiPath == getLastBackupStatusOps \o getNextBackupStatusOps

LockOf(l) == IF l = "hm" THEN mu ELSE bsmu
SetLock(l, m) ==
    IF l = "hm" THEN mu' = m /\ bsmu' = bsmu ELSE bsmu' = m /\ mu' = mu

\* goroutine g has operations left; the one it is at
Running(g) == lpc[g] \in 1 .. Len(path[g])
NextOp(g) == path[g][lpc[g]]
At(g, o) == Running(g) /\ NextOp(g).op = o

\* the goroutines that hold lock l
Holders(l) == LockOf(l).w \cup LockOf(l).r

\* the goroutines blocked in Lock() of l: sync.RWMutex lets no new reader in
\* while a writer waits
WritersWaiting(l) == {g \in Goroutines : At(g, "Lock") /\ NextOp(g).l = l}

\* everything the lock operations leave alone
notLockVars ==
    <<clock, content, cfg, hashes, file, crashed, disk, statusVars, tickVars, schedVars,
      cleanupVars, spc, ent, data, off, ret, calls, persisted, load, overlap>>

\* mu.Lock() returns
TakeLock(g) ==
    /\ At(g, "Lock")
    /\ CanLock(LockOf(NextOp(g).l))
    /\ SetLock(NextOp(g).l, [LockOf(NextOp(g).l) EXCEPT !.w = {g}])
    /\ lpc' = [lpc EXCEPT ![g] = @ + 1]
    /\ UNCHANGED <<path, notLockVars>>

\* the guard of RLock(): no writer holds the lock and none waits for it
CanRLockNow(g) ==
    /\ CanRLock(LockOf(NextOp(g).l))
    /\ WritersWaiting(NextOp(g).l) \ {g} = {}

\* mu.RLock() returns
TakeRLock(g) ==
    /\ At(g, "RLock")
    /\ CanRLockNow(g)
    /\ SetLock(NextOp(g).l, [LockOf(NextOp(g).l) EXCEPT !.r = @ \cup {g}])
    /\ lpc' = [lpc EXCEPT ![g] = @ + 1]
    /\ UNCHANGED <<path, notLockVars>>

\* mu.Unlock()
ReleaseLock(g) ==
    /\ At(g, "Unlock")
    /\ SetLock(NextOp(g).l, [LockOf(NextOp(g).l) EXCEPT !.w = @ \ {g}])
    /\ lpc' = [lpc EXCEPT ![g] = @ + 1]
    /\ UNCHANGED <<path, notLockVars>>

\* mu.RUnlock()
ReleaseRLock(g) ==
    /\ At(g, "RUnlock")
    /\ SetLock(NextOp(g).l, [LockOf(NextOp(g).l) EXCEPT !.r = @ \ {g}])
    /\ lpc' = [lpc EXCEPT ![g] = @ + 1]
    /\ UNCHANGED <<path, notLockVars>>

\* the I/O the goroutine is at returns
DoIO(g) ==
    /\ At(g, "io")
    /\ lpc' = [lpc EXCEPT ![g] = @ + 1]
    /\ UNCHANGED <<mu, bsmu, path, notLockVars>>

\* the ticker of the refresh goroutine fires again
UiAgain ==
    /\ lpc["ui"] = Len(path["ui"]) + 1
    /\ lpc' = [lpc EXCEPT !["ui"] = 1]
    /\ UNCHANGED <<mu, bsmu, path, notLockVars>>

\* ------------------------------------------------------ initial states

NoCalls ==
    /\ mu = NoLock
    /\ spc = [j \in Jobs |-> "idle"]
    /\ ent = [j \in Jobs |-> NoEntry]
    /\ data = [j \in Jobs |-> <<>>]
    /\ off = [j \in Jobs |-> 0]
    /\ ret = [j \in Jobs |-> "none"]
    /\ calls = 0
    /\ load = NoLoad
    /\ overlap = FALSE
    /\ bsmu = NoLock
    /\ lpc = [g \in Goroutines |-> 0]
    /\ path = [g \in Goroutines |-> <<>>]

NoTickLocals ==
    /\ err = [j \in Jobs |-> "none"]
    /\ act = [j \in Jobs |-> "none"]
    /\ cur = [j \in Jobs |-> NoHash]
    /\ rec = [j \in Jobs |-> "none"]
    /\ dir = [j \in Jobs |-> ZeroTime]
    /\ pre = [j \in Jobs |-> NoPre]
    /\ wrote = [j \in Jobs |-> FALSE]
    /\ prev = [j \in Jobs |-> NoPrev]
    /\ unchangedSince = [j \in Jobs |-> 0]

NoTicks ==
    /\ NoTickLocals
    /\ captured = [j \in Jobs |-> NotKept]

NoSchedule ==
    /\ sched = [j \in Jobs |-> NoSched]
    /\ cancelled = FALSE
    /\ timer = [j \in Jobs |-> "none"]

NoCleanup ==
    /\ dirInfos = [j \in Jobs |-> <<>>]
    /\ idx = [j \in Jobs |-> 0]
    /\ listed = [j \in Jobs |-> {}]
    /\ deleted = [j \in Jobs |-> {}]

\* the configuration: job "a" is enabled; job "b" is disabled, so onReady
\* starts no scheduler for it
DisabledConfig ==
    [Enabled |-> FALSE, HashCheck |-> TRUE, RotationCount |-> MaxRotation, ScheduleMinutes |-> 2]
LoadedConfigs ==
    {c \in [Jobs -> Configs] : IsEnabled(c["a"]) /\ c["b"] = DisabledConfig}

\* the stores an earlier run can have left in hashes.json
EarlierEntries == {HashStatus(calculateDirectoryHash(0), k, 1) : k \in Kinds}
EarlierStores == UNION {[S -> EarlierEntries] : S \in SUBSET Jobs}
\* for the ticks of job "a", the kind of the entry of "b" is of no account
EarlierStoresOfTick ==
    {m \in EarlierStores : "b" \in DOMAIN m => m["b"].LastActionType = "backup"}

\* hashes.json of an earlier run, loaded by initHashManager
LoadedStore(stores) ==
    \E m \in stores :
        /\ file \in {FileOf(MarshalIndent(m))} \cup (IF m = EmptyMap THEN {NoFile} ELSE {})
        /\ hashes = initHashManager(file)
        /\ persisted = m

\* SpecStore: the jobs call recordAction; no tick is modelled
InitStore ==
    /\ clock = 2
    /\ content = [j \in Jobs |-> 0]
    /\ cfg = [j \in Jobs |-> [DisabledConfig EXCEPT !.Enabled = TRUE]]
    /\ LoadedStore(EarlierStores)
    /\ crashed = FALSE
    /\ disk = [j \in Jobs |-> {}]
    /\ lastBackupTimes = EmptyMap
    /\ nextBackupTimes = EmptyMap
    /\ pc = [j \in Jobs |-> "off"]
    /\ NoCalls
    /\ NoTicks
    /\ NoSchedule
    /\ NoCleanup

NextStore ==
    \/ \E j \in Jobs : RecordActionBegin(j)
    \/ \E j \in Jobs : RecordActionHashError(j)
    \/ \E j \in Jobs : Lock(j)
    \/ \E j \in Jobs : StoreAndUnlock(j)
    \/ \E j \in Jobs : RLock(j)
    \/ \E j \in Jobs : Marshal(j)
    \/ \E j \in Jobs : OpenTruncate(j)
    \/ \E j \in Jobs : WriteChunk(j)
    \/ \E j \in Jobs : SaveReturn(j)
    \/ \E j \in Jobs : SaveError(j)
    \/ Crash
    \/ Restart

SpecStore == InitStore /\ [][NextStore]_vars

\* SpecCleanup: job "a" is at the call of cleanupOldBackups, with any
\* backup directories in its destination
AnyDisks ==
    {d \in SUBSET ({Snapshot(n, m, TRUE) : n \in 1 .. MaxSnapshots, m \in 1 .. MaxModTime}
                    \cup {OtherEntry(0, 1), Lookalike(1)}) :
        \A x, y \in d : x.name = y.name => x = y}

InitCleanup ==
    /\ clock = 2
    /\ content = [j \in Jobs |-> 0]
    /\ cfg \in LoadedConfigs
    /\ IsHashCheckEnabled(cfg["a"])
    /\ hashes = EmptyMap
    /\ file = NoFile
    /\ persisted = EmptyMap
    /\ crashed = FALSE
    /\ \E d \in AnyDisks : disk = [j \in Jobs |-> IF j = "a" THEN d ELSE {}]
    /\ lastBackupTimes = EmptyMap
    /\ nextBackupTimes = EmptyMap
    /\ pc = [j \in Jobs |-> IF j = "a" THEN "cleanup" ELSE "off"]
    /\ NoCalls
    /\ NoTicks
    /\ NoSchedule
    /\ NoCleanup

NextCleanup ==
    \/ \E j \in Jobs : CleanupReadDirError(j)
    \/ \E j \in Jobs : CleanupList(j)
    \/ \E j \in Jobs : CleanupRemove(j)
    \/ \E j \in Jobs : CleanupRemoveError(j)
    \/ \E j \in Jobs : CleanupPanic(j)
    \/ \E j \in Jobs : CleanupReturn(j)

SpecCleanup == InitCleanup /\ [][NextCleanup]_vars

\* Spec: the scheduler of job "a", from initializeSchedule on, tick by tick
EarlierDisks == {{}, {Snapshot(1, 1, TRUE), OtherEntry(0, 1)}}

Init ==
    /\ clock = 2
    /\ content = [j \in Jobs |-> 0]
    /\ cfg \in LoadedConfigs
    /\ LoadedStore(EarlierStoresOfTick)
    /\ crashed = FALSE
    /\ \E d \in EarlierDisks : disk = [j \in Jobs |-> IF j = "a" THEN d ELSE {}]
    /\ lastBackupTimes = EmptyMap
    /\ nextBackupTimes = EmptyMap
    /\ pc = [j \in Jobs |-> IF IsEnabled(cfg[j]) THEN "start" ELSE "off"]
    /\ NoCalls
    /\ NoTicks
    /\ NoSchedule
    /\ NoCleanup

Next ==
    \/ \E j \in Jobs : InitializeSchedule(j)
    \/ \E j \in Jobs : PlanFirstBackup(j)
    \/ \E j \in Jobs : FirstTimerFires(j)
    \/ \E j \in Jobs : FirstTick(j)
    \/ \E j \in Jobs : TickerFires(j)
    \/ \E j \in Jobs : StartTick(j)
    \/ \E j \in Jobs : Decide(j)
    \/ \E j \in Jobs : SkipRecord(j)
    \/ \E j \in Jobs : SkipStatus(j)
    \/ \E j \in Jobs : Mkdir(j)
    \/ \E j \in Jobs : MkdirError(j)
    \/ \E j \in Jobs : CopyDir(j)
    \/ \E j \in Jobs : CopyDirError(j)
    \/ \E j \in Jobs : CleanupReadDirError(j)
    \/ \E j \in Jobs : CleanupList(j)
    \/ \E j \in Jobs : CleanupRemove(j)
    \/ \E j \in Jobs : CleanupRemoveError(j)
    \/ \E j \in Jobs : CleanupPanic(j)
    \/ \E j \in Jobs : CleanupReturn(j)
    \/ \E j \in Jobs : UpdateStatus(j)
    \/ \E j \in Jobs : Record(j)
    \/ \E j \in Jobs : Return(j)
    \/ \E j \in Jobs : ChangeContent(j)

Spec == Init /\ [][Next]_vars

\* SpecStart: the start of the scheduler of job "a", up to the firing of its
\* first timer, at any time of the day, after any record and with any backup
\* directories an earlier run, its rotation or the user can have left
StartClocks == 2 .. MaxClock
\* at most two entries in the destination: backup directories, complete or
\* left by a copy that failed, and another entry
StartEntries ==
    {Snapshot(n, m, c) : n \in 1 .. MaxSnapshots, m \in 1 .. MaxModTime, c \in BOOLEAN}
        \cup {OtherEntry(0, 1)}
StartDisks ==
    {{}} \cup {d \in {{x, y} : x \in StartEntries, y \in StartEntries} :
                  \A x, y \in d : x.name = y.name => x = y}
StartStores(now) ==
    {EmptyMap} \cup
    {PutEntry(EmptyMap, "a", HashStatus(calculateDirectoryHash(c), k, t)) :
        c \in Contents, k \in Kinds, t \in 1 .. now}

InitStart ==
    /\ clock \in StartClocks
    /\ content = [j \in Jobs |-> 0]
    /\ cfg \in LoadedConfigs
    /\ cfg["a"].RotationCount = MaxRotation
    /\ LoadedStore(StartStores(clock))
    /\ crashed = FALSE
    /\ \E d \in StartDisks : disk = [j \in Jobs |-> IF j = "a" THEN d ELSE {}]
    /\ lastBackupTimes = EmptyMap
    /\ nextBackupTimes = EmptyMap
    /\ pc = [j \in Jobs |-> IF IsEnabled(cfg[j]) THEN "start" ELSE "off"]
    /\ NoCalls
    /\ NoTicks
    /\ NoSchedule
    /\ NoCleanup

NextStart ==
    \/ \E j \in Jobs : InitializeSchedule(j)
    \/ \E j \in Jobs : PlanFirstBackup(j)
    \/ \E j \in Jobs : FirstTimerFires(j)
    \/ \E j \in Jobs : ChangeContent(j)

SpecStart == InitStart /\ [][NextStart]_vars

\* SpecCancel: the scheduler of job "a" on a first run (no record, no backup
\* directory), with cancel() called at any moment
InitCancel ==
    /\ clock = 2
    /\ content = [j \in Jobs |-> 0]
    /\ cfg \in LoadedConfigs
    /\ hashes = EmptyMap
    /\ file = NoFile
    /\ persisted = EmptyMap
    /\ crashed = FALSE
    /\ disk = [j \in Jobs |-> {}]
    /\ lastBackupTimes = EmptyMap
    /\ nextBackupTimes = EmptyMap
    /\ pc = [j \in Jobs |-> IF IsEnabled(cfg[j]) THEN "start" ELSE "off"]
    /\ NoCalls
    /\ NoTicks
    /\ NoSchedule
    /\ NoCleanup

NextCancel ==
    \/ \E j \in Jobs : InitializeSchedule(j)
    \/ \E j \in Jobs : PlanFirstBackup(j)
    \/ \E j \in Jobs : FirstTimerFires(j)
    \/ \E j \in Jobs : FirstTick(j)
    \/ \E j \in Jobs : TickerFires(j)
    \/ \E j \in Jobs : StartTick(j)
    \/ \E j \in Jobs : Decide(j)
    \/ \E j \in Jobs : SkipRecord(j)
    \/ \E j \in Jobs : SkipStatus(j)
    \/ \E j \in Jobs : Mkdir(j)
    \/ \E j \in Jobs : MkdirError(j)
    \/ \E j \in Jobs : CopyDir(j)
    \/ \E j \in Jobs : CopyDirError(j)
    \/ \E j \in Jobs : CleanupReadDirError(j)
    \/ \E j \in Jobs : CleanupList(j)
    \/ \E j \in Jobs : CleanupRemove(j)
    \/ \E j \in Jobs : CleanupRemoveError(j)
    \/ \E j \in Jobs : CleanupPanic(j)
    \/ \E j \in Jobs : CleanupReturn(j)
    \/ \E j \in Jobs : UpdateStatus(j)
    \/ \E j \in Jobs : Record(j)
    \/ \E j \in Jobs : Return(j)
    \/ \E j \in Jobs : ChangeContent(j)
    \/ Cancel
    \/ \E j \in Jobs : StopBeforeFirst(j)
    \/ \E j \in Jobs : StopInLoop(j)

SpecCancel == InitCancel /\ [][NextCancel]_vars

\* a step of the goroutine of j that waits for nothing outside the program:
\* the start of the scheduler, and executeBackup with the calls it makes,
\* each of which returns
TaskStep(j) ==
    \/ InitializeSchedule(j) \/ PlanFirstBackup(j)
    \/ Decide(j) \/ SkipRecord(j) \/ SkipStatus(j)
    \/ Mkdir(j) \/ MkdirError(j) \/ CopyDir(j) \/ CopyDirError(j)
    \/ CleanupReadDirError(j) \/ CleanupList(j) \/ CleanupRemove(j)
    \/ CleanupRemoveError(j) \/ CleanupPanic(j) \/ CleanupReturn(j)
    \/ UpdateStatus(j) \/ Record(j) \/ Return(j)

\* the goroutine of j runs on; a select with ctx.Done() ready takes a ready
\* case at random, so it does not pass case <-ctx.Done() by for ever
FairCancel ==
    \A j \in Jobs :
        /\ WF_vars(TaskStep(j))
        /\ SF_vars(StopBeforeFirst(j))
        /\ SF_vars(StopInLoop(j))

\* SpecCancelFair: SpecCancel with goroutines that run on
SpecCancelFair == SpecCancel /\ FairCancel

\* SpecTicker: the scheduler of job "a" on a first run, with tasks that can
\* outlast the period of the ticker
TickerConfigs ==
    {c \in LoadedConfigs : IsEnabled(c["a"]) /\ ~IsEnabled(c["b"])}

InitTicker ==
    /\ clock = 2
    /\ content = [j \in Jobs |-> 0]
    /\ cfg \in TickerConfigs
    /\ hashes = EmptyMap
    /\ file = NoFile
    /\ persisted = EmptyMap
    /\ crashed = FALSE
    /\ disk = [j \in Jobs |-> {}]
    /\ lastBackupTimes = EmptyMap
    /\ nextBackupTimes = EmptyMap
    /\ pc = [j \in Jobs |-> IF IsEnabled(cfg[j]) THEN "start" ELSE "off"]
    /\ NoCalls
    /\ NoTicks
    /\ NoSchedule
    /\ NoCleanup

NextTicker ==
    \/ \E j \in Jobs : InitializeSchedule(j)
    \/ \E j \in Jobs : PlanFirstBackup(j)
    \/ \E j \in Jobs : FirstTimerFires(j)
    \/ \E j \in Jobs : FirstTick(j)
    \/ \E j \in Jobs : TickerFires(j)
    \/ \E j \in Jobs : TickerFiresDuringTask(j)
    \/ \E j \in Jobs : StartTick(j)
    \/ \E j \in Jobs : Decide(j)
    \/ \E j \in Jobs : SkipRecord(j)
    \/ \E j \in Jobs : SkipStatus(j)
    \/ \E j \in Jobs : Mkdir(j)
    \/ \E j \in Jobs : MkdirError(j)
    \/ \E j \in Jobs : CopyDir(j)
    \/ \E j \in Jobs : CopyDirError(j)
    \/ \E j \in Jobs : CleanupReadDirError(j)
    \/ \E j \in Jobs : CleanupList(j)
    \/ \E j \in Jobs : CleanupRemove(j)
    \/ \E j \in Jobs : CleanupRemoveError(j)
    \/ \E j \in Jobs : CleanupPanic(j)
    \/ \E j \in Jobs : CleanupReturn(j)
    \/ \E j \in Jobs : UpdateStatus(j)
    \/ \E j \in Jobs : Record(j)
    \/ \E j \in Jobs : Return(j)

SpecTicker == InitTicker /\ [][NextTicker]_vars

\* SpecRecord: the scheduler of job "a" with hash check enabled, tick by
\* tick as in Spec, with the history of the contents its copies copied; the
\* content of the record an earlier run left was copied by that run
RecordConfigs ==
    {c \in LoadedConfigs :
        IsHashCheckEnabled(c["a"]) /\ c["a"].RotationCount \in {-1, MaxRotation}}

InitRecord ==
    /\ clock = 2
    /\ content = [j \in Jobs |-> 0]
    /\ cfg \in RecordConfigs
    /\ LoadedStore(EarlierStoresOfTick)
    /\ crashed = FALSE
    /\ \E d \in EarlierDisks : disk = [j \in Jobs |-> IF j = "a" THEN d ELSE {}]
    /\ lastBackupTimes = EmptyMap
    /\ nextBackupTimes = EmptyMap
    /\ pc = [j \in Jobs |-> IF IsEnabled(cfg[j]) THEN "start" ELSE "off"]
    /\ NoCalls
    /\ NoTickLocals
    /\ captured = [j \in Jobs |->
                      IF j \in DOMAIN hashes THEN {ContentOf(hashes[j].LastHash)} ELSE {}]
    /\ NoSchedule
    /\ NoCleanup

SpecRecord == InitRecord /\ [][Next]_vars

\* SpecLocks: the schedulers of two enabled jobs, from initializeSchedule
\* through the first tick, and the refresh of the menu titles, lock
\* operation by lock operation
LockConfigs == {[DisabledConfig EXCEPT !.Enabled = TRUE, !.HashCheck = h] : h \in BOOLEAN}

InitLocks ==
    /\ clock = 2
    /\ content = [j \in Jobs |-> 0]
    /\ cfg \in [Jobs -> LockConfigs]
    /\ hashes = EmptyMap
    /\ file = NoFile
    /\ persisted = EmptyMap
    /\ crashed = FALSE
    /\ disk = [j \in Jobs |-> {}]
    /\ lastBackupTimes = EmptyMap
    /\ nextBackupTimes = EmptyMap
    /\ pc = [j \in Jobs |-> "off"]
    /\ mu = NoLock
    /\ spc = [j \in Jobs |-> "idle"]
    /\ ent = [j \in Jobs |-> NoEntry]
    /\ data = [j \in Jobs |-> <<>>]
    /\ off = [j \in Jobs |-> 0]
    /\ ret = [j \in Jobs |-> "none"]
    /\ calls = 0
    /\ load = NoLoad
    /\ overlap = FALSE
    /\ bsmu = NoLock
    /\ lpc = [g \in Goroutines |-> 1]
    /\ path \in {f \in [Goroutines -> JobPaths(cfg["a"]) \cup JobPaths(cfg["b"]) \cup {UiPath}] :
                    /\ f["ui"] = UiPath
                    /\ \A j \in Jobs : f[j] \in JobPaths(cfg[j])}
    /\ NoTicks
    /\ NoSchedule
    /\ NoCleanup

NextLocks ==
    \/ \E g \in Goroutines : TakeLock(g)
    \/ \E g \in Goroutines : TakeRLock(g)
    \/ \E g \in Goroutines : ReleaseLock(g)
    \/ \E g \in Goroutines : ReleaseRLock(g)
    \/ \E g \in Goroutines : DoIO(g)
    \/ UiAgain

SpecLocks == InitLocks /\ [][NextLocks]_vars

\* ------------------------------------------------------ claims on the tick

\* the decision of this tick of j has been taken and nothing has followed it
JustDecided(j) == pc[j] \in {"skipRecord", "mkdir"} /\ cur[j].st # "none"

\* the stored fingerprint of j exists and equals the current one
SameFingerprint(j) == j \in DOMAIN hashes /\ hashes[j].LastHash = cur[j].h

\* C1: in the decision step of a job with hash check enabled, when the
\* fingerprint is computed without error, the tick is a skip if and only if
\* a record of the job exists and its stored fingerprint equals the current
\* one; when the fingerprints differ or there is no record, it is a copy.
C1_SkipIffSameFingerprint ==
    \A j \in Jobs :
        (cfg[j].HashCheck /\ JustDecided(j) /\ cur[j].st = "ok") =>
            /\ (act[j] = "skip") <=> SameFingerprint(j)
            /\ (act[j] = "copy") <=> ~SameFingerprint(j)
            /\ (pc[j] = "skipRecord") <=> (act[j] = "skip")

\* a tick skips on the record an earlier tick of this run left
C1_Witness ==
    \E j \in Jobs :
        /\ cfg[j].HashCheck /\ JustDecided(j) /\ cur[j].st = "ok"
        /\ act[j] = "skip" /\ SameFingerprint(j)
        /\ prev[j].act = "copy"

\* where a tick is in performBackup, or has come out of it
InPerformBackup == {"mkdir", "copy", "cleanup", "cleanupLoop", "status", "record", "return", "panic"}

\* C2: when the fingerprint computation of the decision step fails, the tick
\* goes on to the copy: it is never a skip, and it does not end before
\* performBackup is entered.
C2_HashFailureCopies ==
    \A j \in Jobs :
        cur[j].st = "failed" => (act[j] = "copy" /\ pc[j] \in InPerformBackup)

\* the hash failed although a record with the fingerprint of the content is
\* there, and the copy is about to be made
C2_Witness ==
    \E j \in Jobs :
        /\ cur[j].st = "failed" /\ pc[j] = "copy"
        /\ j \in DOMAIN hashes
        /\ hashes[j].LastHash = calculateDirectoryHash(content[j])

\* C3: a job with hash check disabled makes a copy at every tick, whatever
\* the store holds for it and whether or not the source has changed: it
\* computes no fingerprint and is never in a skip.
C3_NoHashCheckAlwaysCopies ==
    \A j \in Jobs :
        ~cfg[j].HashCheck =>
            /\ pc[j] \notin {"decide", "skipRecord", "skipStatus"}
            /\ act[j] \in {"none", "copy"}
            /\ (pc[j] \in InPerformBackup => act[j] = "copy")
            /\ cur[j].st = "none"

\* the second tick of a job without hash check copies a source that has not
\* changed and whose fingerprint an earlier run recorded
C3_Witness ==
    \E j \in Jobs :
        /\ ~cfg[j].HashCheck /\ pc[j] = "copy" /\ act[j] = "copy"
        /\ unchangedSince[j] = 2 /\ prev[j].act = "copy"
        /\ j \in DOMAIN hashes
        /\ hashes[j].LastHash = calculateDirectoryHash(content[j])

\* the errors performBackup returns
StepErrors == {"mkdir", "copy", "cleanup"}

\* C6: when the creation of the backup directory, the copy or the cleanup
\* fails in a tick, the tick returns at once, and the status of the job (last
\* and next backup time), its record in memory and hashes.json are what they
\* were when the tick began.
C6_FailureLeavesStatusAndRecord ==
    \A j \in Jobs :
        (err[j] \in StepErrors /\ pc[j] \notin {"idle", "panic"}) =>
            /\ pc[j] = "return"
            /\ StatusOf(j) = pre[j].status
            /\ RecordOf(j) = pre[j].record
            /\ file = pre[j].file
            /\ ~wrote[j]

\* the cleanup failed after it had removed a directory, in the second tick
\* of a job that has a status and a record
C6_Witness ==
    \E j \in Jobs :
        /\ pc[j] = "return" /\ err[j] = "cleanup" /\ deleted[j] # {}
        /\ pre[j].status.hasLast /\ pre[j].record.has
        /\ prev[j].err = "nil"

\* this tick and the one before it began after the last change of the source
SecondOfTwo(j) == prev[j].act # "none" /\ unchangedSince[j] = 2 /\ JustDecided(j)

\* C7 as stated: for a job with hash check enabled, when executeBackup runs
\* twice in succession and the source does not change between the two runs,
\* the second run is a skip.
C7_SecondIsSkip ==
    \A j \in Jobs :
        (cfg[j].HashCheck /\ SecondOfTwo(j)) => act[j] = "skip"

\* the tick before returned nil and left the fingerprint in the store: it
\* was a skip, or a copy whose recordAction computed the fingerprint
LeftFingerprint(j) ==
    /\ prev[j].err = "nil"
    /\ prev[j].act = "skip" \/ prev[j].rec \in {"nil", "save error"}

\* C7 amended: for a job with hash check enabled, when executeBackup runs
\* twice in succession, the source does not change from the start of the
\* first run on, the first run returned nil and was a skip or recorded the
\* fingerprint, and the second run computes the fingerprint without error,
\* the second run is a skip.
C7_SecondIsSkipAfterRecord ==
    \A j \in Jobs :
        (cfg[j].HashCheck /\ SecondOfTwo(j) /\ LeftFingerprint(j) /\ cur[j].st = "ok") =>
            act[j] = "skip"

\* the first tick made a copy and recorded it, the second is decided
C7_Witness ==
    \E j \in Jobs :
        /\ cfg[j].HashCheck /\ SecondOfTwo(j) /\ LeftFingerprint(j) /\ cur[j].st = "ok"
        /\ prev[j].act = "copy" /\ prev[j].rec = "nil"
        /\ act[j] = "skip"

\* ----------------------------------------------- claims on cleanupOldBackups

\* cleanupOldBackups has returned nil to performBackup
CleanupReturnedNil(j) == pc[j] = "status"

\* the directories of the listing that are still in the destination
Kept(j) == listed[j] \cap BackupDirs(disk[j])

\* the directories whose entry.Info() succeeded
Statted(j) == {dirInfos[j][i] : i \in 1 .. Len(dirInfos[j])}

Loaded == loadFromFile(file)

\* every job has called recordAction, got nil from it, and is in no call
AllRecorded == ~crashed /\ \A j \in Jobs : spc[j] = "idle" /\ ret[j] = "nil"

\* C8: when two jobs with distinct names call recordAction concurrently,
\* whatever the order of their lock operations, map updates and file writes,
\* once both calls have returned nil the entry of each is in the map and in
\* hashes.json, as that call wrote it.
C8_ConcurrentRecordsKept ==
    AllRecorded =>
        /\ \A j \in Jobs : j \in DOMAIN hashes /\ hashes[j] = ent[j]
        /\ file.exists /\ ~Loaded.err
        /\ \A j \in Jobs : j \in DOMAIN Loaded.hashes /\ Loaded.hashes[j] = ent[j]

\* both calls have returned nil and their saves had the file open together
C8_Witness == AllRecorded /\ overlap

\* C9: whenever recordAction returns nil, hashes.json holds the store as it
\* was when that call marshalled it, and that store holds the entry the call
\* wrote. A call in "close" has written all its bytes and returns nil next.
C9_ReturnedRecordIsInFile ==
    \A j \in Jobs :
        (~crashed /\ spc[j] = "close") =>
            /\ file.bytes = data[j]
            /\ ~Unmarshal(EmptyMap, data[j]).err
            /\ j \in DOMAIN Unmarshal(EmptyMap, data[j]).hashes
            /\ Unmarshal(EmptyMap, data[j]).hashes[j] = ent[j]

\* C10: if the process dies during a call of recordAction for one job, the
\* entries persisted before for every other job are loaded unchanged at the
\* next start. (No write of the file has failed: only the crash is at work.)
C10_CrashKeepsOtherEntries ==
    (crashed /\ \A j \in Jobs : ret[j] # "save error") =>
        \A j, k \in Jobs :
            (spc[j] # "idle" /\ spc[k] = "idle" /\ k \in DOMAIN persisted) =>
                /\ ~Loaded.err
                /\ k \in DOMAIN Loaded.hashes
                /\ Loaded.hashes[k] = persisted[k]


\* ------------------------------------------- claims on the scheduler start

\* the scheduler of j has computed its first delay and waits for the timer
Planned(j) == sched[j].planned /\ pc[j] = "firstWait"

\* the time since t, at the start of the scheduler of j
SinceAtStart(j, t) == sched[j].now - t

\* C11: at the start of the scheduler the delay before the first tick is
\* max(0, interval - (now - ELT)) when the effective last time ELT is known
\* and 0 when it is unknown; the first timer fires that long after the start;
\* a job with no record and no backup directory on disk runs at once
C11_FirstDelayIsClampedRemainder ==
    \A j \in Jobs :
        Planned(j) =>
            LET interval == cfg[j].ScheduleMinutes
                ELT == sched[j].effectiveLastTime
            IN  /\ ELT # ZeroTime =>
                      sched[j].firstBackupDelay = Max({0, interval - SinceAtStart(j, ELT)})
                /\ ELT = ZeroTime => sched[j].firstBackupDelay = 0
                /\ (j \notin DOMAIN hashes /\ BackupDirs(disk[j]) = {}) =>
                      sched[j].firstBackupDelay = 0
                /\ timer[j] = "fired" => clock = sched[j].now + sched[j].firstBackupDelay

\* the last action is more than an interval old and the first timer has
\* fired at once
C11_Witness ==
    \E j \in Jobs :
        /\ Planned(j)
        /\ sched[j].effectiveLastTime # ZeroTime
        /\ SinceAtStart(j, sched[j].effectiveLastTime) > cfg[j].ScheduleMinutes
        /\ timer[j] = "fired"
        /\ clock = sched[j].now


\* the last record of j is a skip with a non-zero time
LastRecordIsSkip(j) ==
    /\ j \in DOMAIN hashes
    /\ hashes[j].LastActionType = "skipped"
    /\ hashes[j].LastActionTime # ZeroTime

\* the fingerprint the scheduler of j computed at its start equals the
\* recorded one
SameFingerprintAtStart(j) ==
    /\ sched[j].cu.st = "ok"
    /\ j \in DOMAIN hashes
    /\ hashes[j].LastHash = sched[j].cu.h

\* C12: at the start of a scheduler with hash-check enabled, when the last
\* record is a skip with a non-zero time and the recomputed fingerprint
\* equals the recorded one, ELT is the time of the skip record, and a skip
\* recorded half an interval ago gives a first delay of half an interval
C12_UnchangedSkipGivesSkipTime ==
    \A j \in Jobs :
        (Planned(j) /\ cfg[j].HashCheck /\ LastRecordIsSkip(j) /\ SameFingerprintAtStart(j)) =>
            /\ sched[j].effectiveLastTime = hashes[j].LastActionTime
            /\ 2 * SinceAtStart(j, hashes[j].LastActionTime) = cfg[j].ScheduleMinutes =>
                  2 * sched[j].firstBackupDelay = cfg[j].ScheduleMinutes

\* a skip recorded half an interval ago, content unchanged, and a backup
\* directory on disk whose time differs from the time of the skip
C12_Witness ==
    \E j \in Jobs :
        /\ Planned(j) /\ cfg[j].HashCheck /\ LastRecordIsSkip(j) /\ SameFingerprintAtStart(j)
        /\ 2 * SinceAtStart(j, hashes[j].LastActionTime) = cfg[j].ScheduleMinutes
        /\ findLastBackupTime(disk[j]) \notin {ZeroTime, hashes[j].LastActionTime}

\* C13: at the start of a scheduler with hash-check enabled, when the last
\* record is a skip and the recomputed fingerprint differs from the recorded
\* one, ELT is unknown and the first delay is 0, however recent the latest
\* backup directory on disk is
C13_ChangedSinceSkipRunsAtOnce ==
    \A j \in Jobs :
        (/\ Planned(j) /\ cfg[j].HashCheck
         /\ j \in DOMAIN hashes /\ hashes[j].LastActionType = "skipped"
         /\ sched[j].cu.st = "ok" /\ hashes[j].LastHash # sched[j].cu.h) =>
            /\ sched[j].effectiveLastTime = ZeroTime
            /\ sched[j].firstBackupDelay = 0

\* the content changed since the skip and there is a backup directory made
\* less than an interval ago
C13_Witness ==
    \E j \in Jobs :
        /\ Planned(j) /\ cfg[j].HashCheck /\ LastRecordIsSkip(j)
        /\ sched[j].cu.st = "ok" /\ hashes[j].LastHash # sched[j].cu.h
        /\ findLastBackupTime(disk[j]) # ZeroTime
        /\ SinceAtStart(j, findLastBackupTime(disk[j])) < cfg[j].ScheduleMinutes


\* the last record of j is a copy, or j has no record
LastRecordIsCopyOrNone(j) ==
    j \in DOMAIN hashes => hashes[j].LastActionType = "backup"

\* C14 as stated: with hash-check enabled and a last record of kind Copy or
\* no record, ELT is the time of the latest backup directory on disk, or
\* unknown without one; and a Copy record half an interval old with
\* unchanged content gives a first delay of half an interval
C14_CopyRecordHalfIntervalAgo ==
    \A j \in Jobs :
        (Planned(j) /\ cfg[j].HashCheck /\ LastRecordIsCopyOrNone(j)) =>
            /\ sched[j].effectiveLastTime = findLastBackupTime(disk[j])
            /\ (/\ j \in DOMAIN hashes
                /\ 2 * SinceAtStart(j, hashes[j].LastActionTime) = cfg[j].ScheduleMinutes
                /\ SameFingerprintAtStart(j)) =>
                  2 * sched[j].firstBackupDelay = cfg[j].ScheduleMinutes

\* C14, amended: with hash-check enabled and a last record of kind Copy or
\* no record, ELT is the time of the latest backup directory on disk, or
\* unknown without one; and a latest backup directory named half an
\* interval ago gives a first delay of half an interval
C14_LatestSnapshotHalfIntervalAgo ==
    \A j \in Jobs :
        (Planned(j) /\ cfg[j].HashCheck /\ LastRecordIsCopyOrNone(j)) =>
            /\ sched[j].effectiveLastTime = findLastBackupTime(disk[j])
            /\ BackupDirs(disk[j]) = {} => sched[j].effectiveLastTime = ZeroTime
            /\ (/\ j \in DOMAIN hashes
                /\ findLastBackupTime(disk[j]) # ZeroTime
                /\ 2 * SinceAtStart(j, findLastBackupTime(disk[j])) = cfg[j].ScheduleMinutes) =>
                  2 * sched[j].firstBackupDelay = cfg[j].ScheduleMinutes

\* a Copy record and the latest backup directory are both half an interval
\* old
C14_Witness ==
    \E j \in Jobs :
        /\ Planned(j) /\ cfg[j].HashCheck
        /\ j \in DOMAIN hashes /\ hashes[j].LastActionType = "backup"
        /\ findLastBackupTime(disk[j]) = hashes[j].LastActionTime
        /\ 2 * SinceAtStart(j, hashes[j].LastActionTime) = cfg[j].ScheduleMinutes
        /\ SameFingerprintAtStart(j)


\* C15: at the start of a scheduler with hash-check disabled, ELT is the
\* time of the latest backup directory on disk, or unknown without one,
\* whatever record is stored for the job
C15_NoHashCheckUsesDiskOnly ==
    \A j \in Jobs :
        (Planned(j) /\ ~cfg[j].HashCheck) =>
            /\ sched[j].effectiveLastTime = findLastBackupTime(disk[j])
            /\ BackupDirs(disk[j]) = {} => sched[j].effectiveLastTime = ZeroTime

\* hash-check is disabled and the last record is a skip of the present
\* content, at another time than that of the latest backup directory
C15_Witness ==
    \E j \in Jobs :
        /\ Planned(j) /\ ~cfg[j].HashCheck
        /\ LastRecordIsSkip(j)
        /\ hashes[j].LastHash = calculateDirectoryHash(content[j])
        /\ findLastBackupTime(disk[j]) \notin {ZeroTime, hashes[j].LastActionTime}

\* C16: at the start of a scheduler with hash-check enabled and a last
\* record of kind Skip, when the fingerprint cannot be recomputed, ELT is
\* the time of the latest backup directory on disk (unknown without one) and
\* the scheduler goes on to create its first timer
C16_HashErrorFallsBackToDisk ==
    \A j \in Jobs :
        (/\ sched[j].planned /\ cfg[j].HashCheck
         /\ LastRecordIsSkip(j) /\ sched[j].cu.st = "failed") =>
            /\ sched[j].effectiveLastTime = findLastBackupTime(disk[j])
            /\ BackupDirs(disk[j]) = {} => sched[j].effectiveLastTime = ZeroTime
            /\ pc[j] = "firstWait"
            /\ timer[j] \in {"armed", "fired"}
            /\ sched[j].firstBackupDelay =
                  firstBackupDelay(findLastBackupTime(disk[j]), sched[j].now,
                                   cfg[j].ScheduleMinutes)

\* the hash failed after a skip record, there is a backup directory on
\* disk, and the first timer has fired
C16_Witness ==
    \E j \in Jobs :
        /\ sched[j].planned /\ cfg[j].HashCheck
        /\ LastRecordIsSkip(j) /\ sched[j].cu.st = "failed"
        /\ findLastBackupTime(disk[j]) # ZeroTime
        /\ timer[j] = "fired"


\* ------------------------------------- claims on the tick and its rotation

\* the copy and the cleanup of this tick of j have both succeeded
CopiedAndCleaned(j) ==
    /\ act[j] = "copy"
    /\ \/ pc[j] \in {"status", "record"}
       \/ pc[j] = "return" /\ err[j] = "nil"

\* entry.Info() succeeded for every directory the cleanup of j listed, or
\* the cleanup returned before it came to entry.Info()
AllStatted(j) ==
    \/ Cardinality(listed[j]) <= cfg[j].RotationCount
    \/ Statted(j) \cup deleted[j] = listed[j]

CopiedIntoNewDirectory(j) == \A x \in pre[j].dirs : x.name # dir[j]

C18_NoTickBeginsAfterCancel ==
    \A j \in Jobs : pc[j] \in InTask => ~pre[j].cancelled


\* --------------------------------------------- claims on failures of a task

\* C19: no failure inside the task of a job (hash, copy, cleanup or save
\* failure, tick after tick, under any configuration loadConfig accepts) ends
\* the process or stops the task of another job
C19_NoFailureEndsTheProcess ==
    ~crashed /\ \A j \in Jobs : pc[j] # "panic"

\* recordAction has failed in this tick of j, and the tick has returned
RecordFailed(j) == pc[j] = "return" /\ rec[j] \in {"hash error", "save error"}

\* the status table holds last = now and next = now + interval for j
StatusUpdatedNow(j) ==
    StatusOf(j) = [hasLast |-> TRUE, last |-> clock,
                   hasNext |-> TRUE, next |-> clock + cfg[j].ScheduleMinutes]

C21_NextDueFollowsLastAction ==
    \A j \in Jobs :
        /\ (j \in DOMAIN nextBackupTimes /\ j \in DOMAIN hashes) =>
              nextBackupTimes[j] >= hashes[j].LastActionTime
        /\ (pc[j] \in InTask /\ pre[j].status.hasNext) =>
              /\ StatusOf(j).next >= pre[j].status.next
              /\ (StatusOf(j).next - pre[j].status.next) % cfg[j].ScheduleMinutes = 0


\* ------------------------------------------------ claims on the records

\* this tick of j has decided, done its copy or its skip, and returned nil
TickCompleted(j) == pc[j] = "return" /\ err[j] = "nil" /\ act[j] \in {"copy", "skip"}

\* the kind recordAction is given for a decision
KindOf(a) == IF a = "skip" THEN "skipped" ELSE "backup"

\* the map holds a record of this tick of j: its kind, at the present time
HoldsRecordOfTick(j) ==
    /\ j \in DOMAIN hashes
    /\ hashes[j].LastActionType = KindOf(act[j])
    /\ hashes[j].LastActionTime = clock

CompleteDirs(d) == {x \in d : x.qualifies => x.complete}

\* C23: a copy that failed is never credited as an action: the directory it
\* leaves on disk changes neither the effective last time nor the first
\* delay of a later start of the scheduler, which are what they would be
\* without that directory, nor the last backup time the status table shows
C23_FailedCopyIsNotCredited ==
    \A j \in Jobs :
        Planned(j) =>
            LET ELT == SchedulerEffectiveLastTime(cfg[j], hashes, j, CompleteDirs(disk[j]),
                                                  sched[j].cu)
            IN  /\ sched[j].effectiveLastTime = ELT
                /\ sched[j].firstBackupDelay =
                      firstBackupDelay(ELT, sched[j].now, cfg[j].ScheduleMinutes)
                /\ (BackupDirs(CompleteDirs(disk[j])) = {} /\ j \notin DOMAIN hashes) =>
                      j \notin DOMAIN lastBackupTimes


\* ------------------------------------------------- claims on the load

\* the last start found hashes.json malformed
LoadFailed == ~crashed /\ load.err

\* C24 as stated: when hashes.json exists and is malformed, the load at the
\* start is a fatal error: no task of a job runs on the store that failed to
\* load
C24_MalformedFileStopsTheStart ==
    LoadFailed => (calls = load.calls /\ \A j \in Jobs : spc[j] = "idle")

\* C24, amended: when hashes.json exists and is malformed, the load at the
\* start fails, the store is empty and the program goes on; a missing file
\* is no error and gives an empty store as well
C24_MalformedFileGivesEmptyStore ==
    /\ (LoadFailed /\ calls = load.calls) => (hashes = EmptyMap /\ file.exists)
    /\ ~file.exists => (~Loaded.err /\ Loaded.hashes = EmptyMap)

\* after a load that failed on a file that holds an entry, a job is in a
\* call of recordAction
C24_Witness ==
    /\ LoadFailed
    /\ calls > load.calls
    /\ \E j \in Jobs : spc[j] # "idle"

\* ------------------------------------- claims on the latest backup time

\* the latest last-modified time of the backup directories, ZeroTime if none
LatestModTime(d) ==
    IF BackupDirs(d) = {} THEN ZeroTime ELSE Max({x.mtime : x \in BackupDirs(d)})

\* C25: the time of the latest backup used for scheduling is the latest
\* last-modified time of the job's backup directories (the time
\* cleanupOldBackups sorts by), not the time in a directory's name, and
\* unknown when there is no backup directory
C25_LatestBackupTimeIsModTime ==
    \A j \in Jobs :
        (Planned(j) /\ ~cfg[j].HashCheck) =>
            sched[j].effectiveLastTime = LatestModTime(disk[j])

\* ------------------------- claims on the schedule published at the start

\* initializeSchedule and startBackupScheduler resolve the same effective
\* last time from the same flag, record, fingerprint outcome and directories
SameEffectiveLastTime(j) ==
    StatusEffectiveLastTime(cfg[j], hashes, j, disk[j], sched[j].cu)
        = sched[j].effectiveLastTime

\* the next-due time of the status table is the time the first timer is due
PublishedIsFirstTick(j) ==
    /\ j \in DOMAIN nextBackupTimes
    /\ nextBackupTimes[j] = sched[j].now + sched[j].firstBackupDelay

\* C26: for every combination of hash-check flag, kind of the last record,
\* fingerprint outcome and presence of a backup directory, initializeSchedule
\* resolves the effective last time startBackupScheduler resolves, so the
\* next-due time first published is the time the first tick is due
C26_StatusMirrorsScheduler ==
    \A j \in Jobs :
        Planned(j) => (SameEffectiveLastTime(j) /\ PublishedIsFirstTick(j))

\* -------------------------------------------- claims on the skip tick

\* the tick of j took the skip branch and is about to return
SkipTickDone(j) == pc[j] = "return" /\ act[j] = "skip"

\* the tick of j called neither copyDir nor cleanupOldBackups: no directory
\* of this tick, nothing listed, nothing deleted, the backup directories on
\* disk are those of the start of the tick
NoCopyNoCleanup(j) ==
    /\ dir[j] = ZeroTime
    /\ listed[j] = {} /\ deleted[j] = {} /\ dirInfos[j] = <<>>
    /\ BackupDirs(disk[j]) = pre[j].dirs

\* C27 as stated: a tick that skips leaves a record of kind skipped at now,
\* sets last = now and next = now + interval in the status table, and calls
\* neither the copy nor the cleanup
C27_SkipTickRecordsSkip ==
    \A j \in Jobs :
        SkipTickDone(j) =>
            /\ HoldsRecordOfTick(j)
            /\ StatusUpdatedNow(j)
            /\ NoCopyNoCleanup(j)

\* C27: a tick that skips calls recordAction with kind skipped, which leaves
\* a record of kind skipped at now unless the fingerprint cannot be computed
\* again (then the record stays as it was); either way the tick sets last =
\* now and next = now + interval, returns nil, and calls neither the copy
\* nor the cleanup
C27_SkipTickKeepsDisk ==
    \A j \in Jobs :
        SkipTickDone(j) =>
            /\ rec[j] # "none"
            /\ rec[j] # "hash error" => HoldsRecordOfTick(j)
            /\ rec[j] = "hash error" => RecordOf(j) = pre[j].record
            /\ err[j] = "nil"
            /\ StatusUpdatedNow(j)
            /\ NoCopyNoCleanup(j)

\* a skip with more backup directories on disk than rotation_count, which a
\* cleanup would have removed, and a status table that showed another time
C27_Witness ==
    \E j \in Jobs :
        /\ SkipTickDone(j) /\ rec[j] = "nil"
        /\ Cardinality(pre[j].dirs) > cfg[j].RotationCount
        /\ cfg[j].RotationCount >= 0
        /\ pre[j].status.hasNext /\ pre[j].status.next # clock + cfg[j].ScheduleMinutes

\* -------------------------------------------- claims on the copy tick

\* the directory of this tick is on disk and its copy succeeded
CopySucceeded(j) == \E x \in disk[j] : x.qualifies /\ x.name = dir[j] /\ x.complete

\* neither the status table nor the record of j changed since the tick began
NothingPublished(j) == StatusOf(j) = pre[j].status /\ RecordOf(j) = pre[j].record

\* cleanupOldBackups has not been called in this tick
CleanupNotCalled(j) == listed[j] = {} /\ deleted[j] = {} /\ dirInfos[j] = <<>>

\* the tick of j is in performBackup or has returned from it
InCopyTick(j) == act[j] = "copy" /\ pc[j] \in InTask

\* C28: in a tick that copies, the steps run in the order copy, cleanup,
\* status update, record: the cleanup starts only with the copy complete on
\* disk and nothing published; the status is updated only after the cleanup
\* listed the directories; the record is written only after the status
\* update; and a tick whose copy (or directory creation) fails calls no
\* cleanup, so every backup directory of before the tick is still on disk
C28_CopyThenCleanupThenStatusThenRecord ==
    \A j \in Jobs :
        InCopyTick(j) =>
            /\ pc[j] \in {"mkdir", "copy"} => (CleanupNotCalled(j) /\ NothingPublished(j))
            /\ pc[j] \in {"cleanup", "cleanupLoop"} =>
                  /\ NothingPublished(j)
                  /\ CopySucceeded(j) \/ \E x \in deleted[j] : x.name = dir[j] /\ x.complete
            /\ pc[j] = "status" => (listed[j] # {} /\ NothingPublished(j))
            /\ pc[j] = "record" =>
                  (listed[j] # {} /\ StatusUpdatedNow(j) /\ RecordOf(j) = pre[j].record)
            /\ (pc[j] = "return" /\ rec[j] # "none") => (listed[j] # {} /\ StatusUpdatedNow(j))
            /\ (pc[j] = "return" /\ err[j] \in {"mkdir", "copy"}) =>
                  /\ CleanupNotCalled(j)
                  /\ NothingPublished(j)
                  /\ pre[j].dirs \subseteq {x \in BackupDirs(disk[j]) : x.name # dir[j]}

\* the copy failed with more backup directories on disk than rotation_count
\* allows, which a cleanup would have removed
C28_Witness ==
    \E j \in Jobs :
        /\ InCopyTick(j) /\ pc[j] = "return" /\ err[j] = "copy"
        /\ cfg[j].RotationCount >= 0
        /\ Cardinality(pre[j].dirs) > cfg[j].RotationCount

\* ------------------------------------ claims on a failed removal

\* os.RemoveAll failed in the cleanup of j
RemoveFailed(j) == err[j] = "cleanup" /\ dirInfos[j] # <<>>

\* C29: when os.RemoveAll fails for a directory, cleanupOldBackups returns
\* that error at once: the directories after it in the order oldest first
\* are all still on disk, and the ones removed before it are exactly the
\* first idx of the order and are not on disk
C29_RemoveErrorStopsTheCleanup ==
    \A j \in Jobs :
        RemoveFailed(j) =>
            /\ pc[j] = "return"
            /\ idx[j] < Len(dirInfos[j])
            /\ deleted[j] = {dirInfos[j][i] : i \in 1 .. idx[j]}
            /\ deleted[j] \cap disk[j] = {}
            /\ \A i \in idx[j] + 1 .. Len(dirInfos[j]) : dirInfos[j][i] \in disk[j]

\* the removal of the second of three directories to delete failed
C29_Witness ==
    \E j \in Jobs :
        /\ RemoveFailed(j)
        /\ idx[j] >= 1
        /\ idx[j] + 1 < ToDelete(Len(dirInfos[j]), cfg[j].RotationCount)
        /\ idx[j] + 1 < Len(dirInfos[j])

\* -------------------------------------------- claims on the ticker

\* the tick of j that is running is not the first of its scheduler
LaterTick(j) == pc[j] \in InTask /\ pre[j].lastTick # ZeroTime

AllStopped == \A j \in Jobs : pc[j] \in {"stopped", "off"}

Saving == {k \in Jobs : spc[k] \in {"marshal", "open", "write", "close"}}

\* no job stores into the map while another marshals or writes it
NoStoreWhileSaving == \A j \in Jobs : spc[j] = "locked" => Saving = {}

\* C33: the writes of hashes.json are serialized: at no time are two jobs
\* inside os.WriteFile of saveToFile at once, and no job stores into the map
\* while another job marshals or writes it
C33_FileWritesAreSerialized ==
    ~crashed => (Cardinality(Writing) <= 1 /\ NoStoreWhileSaving)

\* ---------------------------------------------- claims on the two locks

\* the I/O of a job on its own folders
JobIO == {"scan", "hash", "copy", "delete"}

\* C32: no goroutine holds the lock of the status table or the lock of the
\* hash store while it scans a destination, hashes a source, copies or
\* removes files, so no other job's status update or lookup waits for that
\* I/O
C32_NoLockHeldDuringJobIO ==
    \A g \in Goroutines :
        (At(g, "io") /\ NextOp(g).l \in JobIO) => (g \notin Holders("bs") \cup Holders("hm"))

\* goroutine g waits in Lock() or RLock(), and the goroutines it waits for
Blocked(g) ==
    \/ At(g, "Lock") /\ ~CanLock(LockOf(NextOp(g).l))
    \/ At(g, "RLock") /\ ~CanRLockNow(g)
Blockers(g) ==
    IF At(g, "Lock") THEN Holders(NextOp(g).l)
    ELSE LockOf(NextOp(g).l).w \cup (WritersWaiting(NextOp(g).l) \ {g})

\* a set of goroutines each of which waits for another of the set
Deadlocked(S) == S # {} /\ \A g \in S : Blocked(g) /\ Blockers(g) \cap S # {}

\* C36: a goroutine that asks for the lock of the status table holds no lock
\* of the hash store (the status lock comes first, never the reverse), no
\* goroutine asks for a lock it holds, and no set of schedulers and menu
\* refreshes is deadlocked on the two locks
C36_LocksAreTakenInOrder ==
    /\ \A g \in Goroutines :
          (At(g, "Lock") \/ At(g, "RLock")) =>
              /\ NextOp(g).l = "bs" => g \notin Holders("hm")
              /\ g \notin Holders(NextOp(g).l)
    /\ \A S \in SUBSET Goroutines : ~Deadlocked(S)

\* the menu refresh holds the status lock and waits for the store lock behind
\* a scheduler that waits to write the store, which a third goroutine reads
C36_Witness ==
    \E g, h, k \in Goroutines :
        /\ g \in Holders("bs") /\ At(g, "RLock") /\ NextOp(g).l = "hm" /\ Blocked(g)
        /\ h # g /\ At(h, "Lock") /\ NextOp(h).l = "hm" /\ Blocked(h)
        /\ k \notin {g, h} /\ k \in Holders("hm")

\* -------------------------------- claims on the fingerprint of the record

\* the fingerprints of the contents the successful copies of j copied
CapturedHashes(j) == {calculateDirectoryHash(c) : c \in captured[j]}

\* C34: in every state the fingerprint in the record of a job is that of a
\* content a successful copy of the job copied, also when the source changes
\* during a tick; so a tick skips only a content that was copied
C34_RecordedFingerprintWasCopied ==
    \A j \in Jobs :
        /\ j \in DOMAIN hashes => hashes[j].LastHash \in CapturedHashes(j)
        /\ (pc[j] = "skipRecord" /\ act[j] = "skip") => cur[j].h \in CapturedHashes(j)

\* ------------------------------------ claims on ticks that run long

\* C35: for each job at most one tick is in progress at a time: a tick after
\* the first begins only when the tick before it has returned, no sooner than
\* one period after that one began, and with the ticker armed again, however
\* many periods have gone by during the tick before
C35_OneTickAtATime ==
    \A j \in Jobs :
        LaterTick(j) =>
            /\ prev[j].err # "none"
            /\ clock >= pre[j].lastTick + TickerPeriod(j)
            /\ timer[j] \in {"armed", "fired"}

\* a tick that begins two periods after the one before it began, which
\* outlasted both, and finds the ticker armed: one tick for the two periods
C35_Witness ==
    \E j \in Jobs :
        /\ LaterTick(j) /\ pc[j] \in {"decide", "mkdir"}
        /\ clock = pre[j].lastTick + 2 * TickerPeriod(j)
        /\ pre[j].lastTick > 2
        /\ timer[j] = "armed"

\* -------------------------------------- claims on what the cleanup removes

\* the directory the tick of j created is on disk, completely copied
NewSnapshotOnDisk(j) == \E x \in disk[j] : x.name = dir[j] /\ x.complete

\* C37: the cleanup of a Copy tick never deletes the snapshot the tick
\* created: when a Copy tick has returned without error, its new snapshot
\* directory is on disk
C37_CopyTickKeepsItsSnapshot ==
    \A j \in Jobs :
        (pc[j] = "return" /\ act[j] = "copy" /\ err[j] = "nil") => NewSnapshotOnDisk(j)

\* C38: for every rotation count the loader accepts and every set of listed
\* snapshots, the cleanup sets out to delete at most as many directories as
\* it listed, and its loop never indexes past the end of the sorted list
C38_CleanupStaysInsideItsList ==
    \A j \in Jobs :
        pc[j] = "cleanupLoop" =>
            /\ ToDelete(Len(dirInfos[j]), cfg[j].RotationCount) <= Cardinality(listed[j])
            /\ InLoop(j) => idx[j] < Len(dirInfos[j])

\* C39: the cleanup and the scan for the latest snapshot consider the same
\* directories: every directory the cleanup counts or deletes has a name
\* made of a timestamp that parses, the separator and the source folder
\* name, so a directory that only ends with the source folder name and is
\* long enough is never deleted
C39_CleanupOnlyTouchesTimestampedNames ==
    \A j \in Jobs :
        /\ listed[j] # {} => listed[j] = Timestamped(listed[j])
        /\ \A x \in deleted[j] : ~parseBackupTimestamp(x).err

====
